---- MODULE Spec2Model ----
(***************************************************************************)
(* Verification model of the sketch-to-solid kernel of jibanta66/cad1:     *)
(*   - SketchEngine3D   (utils/sketch3d, src/unnamed/part_001:181-846)     *)
(*   - ExtrusionEngine  (the computeNormal variant, src/unnamed/part_000)  *)
(*                                                                         *)
(* Lengths are integers in units of a quarter of a scene unit, so that the *)
(* default grid size 0.5 is 2.  A null reference is the empty sequence, a  *)
(* non-null one a sequence of length one holding the object.               *)
(***************************************************************************)
EXTENDS Integers, Sequences, FiniteSets, TLC

\* ------------------------------------------------------------------------
\* Bounds of the model
\* ------------------------------------------------------------------------
\* committed shapes kept per session before the model stops committing
MaxShapes == 2
\* points an in-progress shape may accumulate before the model stops picking
MaxPoints == 3
\* largest value of Date.now() the model lets the clock reach
MaxClock == 1
\* longest shape list handed to extrudeSketch
MaxInput == 2

\* ------------------------------------------------------------------------
\* Values
\* ------------------------------------------------------------------------
None == <<>>
Some(x) == <<x>>

Tools == {"line", "rectangle", "circle", "polygon", "spline"}
Modes == {"surface", "plane", "free"}
\* world axis the workplane normal points along (+X, +Y or +Z)
Normals == {"x", "y", "z"}
Buttons == {0, 2}

\* gridSize 0.5 of the source, in quarter units
DefaultGridSize == 2
\* the grid sizes setGridSize is called with: 0.5 and 1
GridSizes == {DefaultGridSize, 2 * DefaultGridSize}

\* pointer positions: the workplane-local (x, y) where the pointer's ray
\* meets the workplane mesh, or Miss when the ray meets nothing
Miss == <<>>

VARIABLES
  shapes, currentTool, sketchMode, isDrawing, currentShape,
  workplane, gridHelper, snapToGrid, gridSize, workplaneVisible,
  sketchLines, sketchMeshes, previewLine, previewMesh,
  scene, mouse, now, hist,
  exShapes, exSettings, exResult,
  nrmPoints, nrmResult,
  offMesh, offInput,
  objects, selectedObjectId, generated, buffers,
  rendererObjects, prevObjects

engineVars == <<shapes, currentTool, sketchMode, isDrawing, currentShape,
                workplane, gridHelper, snapToGrid, gridSize, workplaneVisible,
                sketchLines, sketchMeshes, previewLine, previewMesh,
                scene, mouse>>
\* the App's objects and the renderer that shows them
syncVars == <<objects, selectedObjectId, generated, buffers,
              rendererObjects, prevObjects>>
exVars == <<exShapes, exSettings, exResult, nrmPoints, nrmResult,
            offMesh, offInput, syncVars>>
vars == <<engineVars, now, hist, exVars>>

\* ------------------------------------------------------------------------
\* Vector3 arithmetic (THREE.Vector3 on integer coordinates)
\* ------------------------------------------------------------------------
Vec(x, y, z) == <<x, y, z>>
addVectors(a, b) == <<a[1] + b[1], a[2] + b[2], a[3] + b[3]>>
subVectors(a, b) == <<a[1] - b[1], a[2] - b[2], a[3] - b[3]>>
crossVectors(a, b) == <<a[2] * b[3] - a[3] * b[2],
                        a[3] * b[1] - a[1] * b[3],
                        a[1] * b[2] - a[2] * b[1]>>
dot(a, b) == a[1] * b[1] + a[2] * b[2] + a[3] * b[3]
\* the square of Vector3.distanceTo
distanceToSquared(a, b) == dot(subVectors(a, b), subVectors(a, b))
ZeroVec == <<0, 0, 0>>
multiplyScalar(v, k) == <<v[1] * k, v[2] * k, v[3] * k>>

\* ------------------------------------------------------------------------
\* Workplane frame.  Object3D.lookAt(position + normal) turns the mesh so
\* that its local +Z is the normal; with up = (0,1,0) the local axes are
\*   normal +Z : X = ( 1,0, 0)  Y = (0,1, 0)
\*   normal +X : X = ( 0,0,-1)  Y = (0,1, 0)
\*   normal +Y : X = ( 1,0, 0)  Y = (0,0,-1)   (up parallel to the normal)
\* ------------------------------------------------------------------------
localToWorld(wp, l) ==
  addVectors(wp.position,
    CASE wp.normal = "z" -> <<l[1], l[2], l[3]>>
      [] wp.normal = "x" -> <<l[3], l[2], -l[1]>>
      [] wp.normal = "y" -> <<l[1], l[3], -l[2]>>)

worldToLocal(wp, p) ==
  LET d == subVectors(p, wp.position) IN
    CASE wp.normal = "z" -> <<d[1], d[2], d[3]>>
      [] wp.normal = "x" -> <<-d[3], d[2], d[1]>>
      [] wp.normal = "y" -> <<d[1], -d[3], d[2]>>

\* Math.floor(a / g) in the place of Math.round(a / g)
MathFloorDiv(a, g) == a \div g

\* Math.round(a / g) for integers a and g > 0: floor(a/g + 1/2)
MathRoundDiv(a, g) == (2 * a + g) \div (2 * g)

\* ------------------------------------------------------------------------
\* The engine as a record, so that a method is an operator from the state
\* before the call to the state after it.
\* ------------------------------------------------------------------------
Self ==
  [shapes |-> shapes, currentTool |-> currentTool, sketchMode |-> sketchMode,
   isDrawing |-> isDrawing, currentShape |-> currentShape,
   workplane |-> workplane, gridHelper |-> gridHelper,
   snapToGrid |-> snapToGrid, gridSize |-> gridSize,
   workplaneVisible |-> workplaneVisible,
   sketchLines |-> sketchLines, sketchMeshes |-> sketchMeshes,
   previewLine |-> previewLine, previewMesh |-> previewMesh,
   scene |-> scene, mouse |-> mouse, now |-> now]

Become(e) ==
  /\ shapes' = e.shapes
  /\ currentTool' = e.currentTool
  /\ sketchMode' = e.sketchMode
  /\ isDrawing' = e.isDrawing
  /\ currentShape' = e.currentShape
  /\ workplane' = e.workplane
  /\ gridHelper' = e.gridHelper
  /\ snapToGrid' = e.snapToGrid
  /\ gridSize' = e.gridSize
  /\ workplaneVisible' = e.workplaneVisible
  /\ sketchLines' = e.sketchLines
  /\ sketchMeshes' = e.sketchMeshes
  /\ previewLine' = e.previewLine
  /\ previewMesh' = e.previewMesh
  /\ scene' = e.scene
  /\ mouse' = e.mouse

\* scene.add / scene.remove of one object of a kind
SceneKinds == {"workplane", "grid", "sketchLine", "sketchMesh",
               "previewLine", "previewMesh"}
sceneAdd(e, kind) == [e EXCEPT !.scene[kind] = @ + 1]
sceneRemove(e, kind) == [e EXCEPT !.scene[kind] = IF @ > 0 THEN @ - 1 ELSE 0]

\* `point-${Date.now()}` and `<prefix>-${Date.now()}`
newPoint(e, p) == [position |-> p, id |-> e.now, onSurface |-> TRUE]
newShape(e, type, prefix, pts, closed) ==
  [type |-> type, points |-> pts, id |-> <<prefix, e.now>>, closed |-> closed]

updateMousePosition(e, ev) == [e EXCEPT !.mouse = ev.pos]

clearWorkplane(e) ==
  LET e1 == IF e.workplane # None
              THEN [sceneRemove(e, "workplane") EXCEPT !.workplane = None]
              ELSE e
  IN IF e1.gridHelper # None
       THEN [(IF e1.gridHelper[1].inScene THEN sceneRemove(e1, "grid") ELSE e1)
               EXCEPT !.gridHelper = None]
       ELSE e1

createWorkplaneAt(e, position, normal) ==
  LET e1 == clearWorkplane(e)
      wp == [position |-> position, normal |-> normal,
             shown |-> e1.workplaneVisible]
      e2 == sceneAdd([e1 EXCEPT !.workplane = Some(wp)], "workplane")
      gh == [size |-> e2.gridSize, visible |-> TRUE,
             inScene |-> e2.workplaneVisible]
      e3 == [e2 EXCEPT !.gridHelper = Some(gh)]
  IN IF e3.workplaneVisible THEN sceneAdd(e3, "grid") ELSE e3

\* kinds of scene children that createWorkplane hands to the raycaster:
\* instances of THREE.Mesh that are not the workplane, the grid helper, a
\* sketch line or a sketch mesh.  Solids of the model are always candidates.
rayTested(e) ==
  {"solid"} \cup {k \in {"previewMesh"} : e.scene[k] > 0}

\* hit: None (no intersection) or Some([kind, position, normal]) of the
\* nearest intersection; cam: the point and normal the camera gives in
\* plane mode
createWorkplane(e, hit, cam) ==
  IF e.sketchMode = "surface"
    THEN IF hit # None
           THEN [e |-> createWorkplaneAt(e, hit[1].position, hit[1].normal),
                 ret |-> "true"]
           ELSE [e |-> e, ret |-> "false"]
    ELSE IF e.sketchMode = "plane"
      THEN [e |-> createWorkplaneAt(e, cam.position, cam.normal), ret |-> "true"]
      ELSE [e |-> e, ret |-> "false"]

snapPointToGrid(e, point) ==
  IF e.workplane = None THEN point
  ELSE LET wp == e.workplane[1]
           l == worldToLocal(wp, point)
       IN localToWorld(wp, <<MathRoundDiv(l[1], e.gridSize) * e.gridSize,
                             MathRoundDiv(l[2], e.gridSize) * e.gridSize,
                             0>>)

\* null is None, a point is Some(Vector3)
getWorkplaneIntersection(e) ==
  IF e.workplane = None THEN None
  ELSE IF e.mouse # Miss
    THEN LET point == localToWorld(e.workplane[1], <<e.mouse[1], e.mouse[2], 0>>)
         IN Some(IF e.snapToGrid THEN snapPointToGrid(e, point) ELSE point)
    ELSE None

clearPreview(e) ==
  LET e1 == IF e.previewLine
              THEN [sceneRemove(e, "previewLine") EXCEPT !.previewLine = FALSE]
              ELSE e
  IN IF e1.previewMesh # None
       THEN [sceneRemove(e1, "previewMesh") EXCEPT !.previewMesh = None]
       ELSE e1

\* createSketchLine without this.sketchLines.push(line)
createSketchLineUnlisted(e, shape) ==
  sceneAdd(e, "sketchLine")

createSketchLine(e, shape) ==
  [sceneAdd(e, "sketchLine") EXCEPT !.sketchLines = @ + 1]

createSketchCircle(e, shape) ==
  IF Len(shape.points) < 2 THEN e
  ELSE [sceneAdd(e, "sketchMesh") EXCEPT !.sketchMeshes = @ + 1]

\* updateLinePreview without its call of clearPreview
updateLinePreviewStacking(e, endPoint) ==
  IF e.currentShape = None THEN e
  ELSE [sceneAdd(e, "previewLine") EXCEPT !.previewLine = TRUE]

updateLinePreview(e, endPoint) ==
  IF e.currentShape = None THEN e
  ELSE [sceneAdd(clearPreview(e), "previewLine") EXCEPT !.previewLine = TRUE]

updateRectanglePreview(e, endPoint) ==
  IF e.currentShape = None THEN e
  ELSE [sceneAdd(clearPreview(e), "previewLine") EXCEPT !.previewLine = TRUE]

updateCirclePreview(e, edgePoint) ==
  IF e.currentShape = None THEN e
  ELSE LET center == e.currentShape[1].points[1].position
           ring == [center |-> center,
                    radiusSq |-> distanceToSquared(center, edgePoint)]
       IN [sceneAdd(clearPreview(e), "previewMesh") EXCEPT !.previewMesh = Some(ring)]

updatePolygonPreview(e) ==
  IF e.currentShape = None \/ Len(e.currentShape[1].points) < 2 THEN e
  ELSE [sceneAdd(clearPreview(e), "previewLine") EXCEPT !.previewLine = TRUE]

updateSplinePreview(e) ==
  IF e.currentShape = None \/ Len(e.currentShape[1].points) < 2 THEN e
  ELSE [sceneAdd(clearPreview(e), "previewLine") EXCEPT !.previewLine = TRUE]

updatePreview(e) ==
  IF e.currentShape = None THEN e
  ELSE LET point == getWorkplaneIntersection(e) IN
    IF point = None THEN e
    ELSE CASE e.currentTool = "line" -> updateLinePreview(e, point[1])
           [] e.currentTool = "rectangle" -> updateRectanglePreview(e, point[1])
           [] e.currentTool = "circle" -> updateCirclePreview(e, point[1])
           [] OTHER -> e

\* the commit with unshift in place of push: the shape goes to the front
commitCurrentFirst(e) ==
  [e EXCEPT !.shapes = <<e.currentShape[1]>> \o @, !.currentShape = None]

\* this.shapes.push(this.currentShape); this.currentShape = null
commitCurrent(e) ==
  [e EXCEPT !.shapes = Append(@, e.currentShape[1]), !.currentShape = None]

startLine(e, startPoint) ==
  [e EXCEPT !.currentShape =
     Some(newShape(e, "line", "line", <<newPoint(e, startPoint)>>, FALSE))]

finishLine(e, endPoint) ==
  IF e.currentShape = None THEN e
  ELSE LET e1 == [e EXCEPT !.currentShape[1].points = Append(@, newPoint(e, endPoint))]
       IN commitCurrent(createSketchLine(e1, e1.currentShape[1]))

startRectangle(e, startPoint) ==
  [e EXCEPT !.currentShape =
     Some(newShape(e, "rectangle", "rect", <<newPoint(e, startPoint)>>, TRUE))]

finishRectangle(e, endPoint) ==
  IF e.currentShape = None THEN e
  ELSE LET first == e.currentShape[1].points[1]
           startPoint == first.position
           e1 == [e EXCEPT !.currentShape[1].points =
                    << first,
                       newPoint(e, Vec(endPoint[1], startPoint[2], startPoint[3])),
                       newPoint(e, endPoint),
                       newPoint(e, Vec(startPoint[1], endPoint[2], startPoint[3])) >>]
       IN commitCurrent(createSketchLine(e1, e1.currentShape[1]))

startCircle(e, centerPoint) ==
  [e EXCEPT !.currentShape =
     Some(newShape(e, "circle", "circle", <<newPoint(e, centerPoint)>>, TRUE))]

finishCircle(e, edgePoint) ==
  IF e.currentShape = None THEN e
  ELSE LET e1 == [e EXCEPT !.currentShape[1].points = Append(@, newPoint(e, edgePoint))]
       IN commitCurrent(createSketchCircle(e1, e1.currentShape[1]))

addPolygonPoint(e, point) ==
  LET e1 == IF e.currentShape = None
              THEN [e EXCEPT !.currentShape =
                      Some(newShape(e, "polygon", "polygon", <<>>, FALSE))]
              ELSE e
      e2 == [e1 EXCEPT !.currentShape[1].points = Append(@, newPoint(e, point))]
  IN updatePolygonPreview(e2)

finishPolygon(e) ==
  IF e.currentShape = None \/ Len(e.currentShape[1].points) < 3 THEN e
  ELSE LET e1 == [e EXCEPT !.currentShape[1].closed = TRUE]
       IN clearPreview(commitCurrent(createSketchLine(e1, e1.currentShape[1])))

startSpline(e, startPoint) ==
  [e EXCEPT !.currentShape =
     Some(newShape(e, "spline", "spline", <<newPoint(e, startPoint)>>, FALSE))]

addSplinePoint(e, point) ==
  IF e.currentShape = None THEN e
  ELSE updateSplinePreview(
         [e EXCEPT !.currentShape[1].points = Append(@, newPoint(e, point))])

startDrawing(e) ==
  IF e.workplane = None THEN e
  ELSE LET point == getWorkplaneIntersection(e) IN
    IF point = None THEN e
    ELSE LET e1 == [e EXCEPT !.isDrawing = TRUE] IN
      CASE e1.currentTool = "line" -> startLine(e1, point[1])
        [] e1.currentTool = "rectangle" -> startRectangle(e1, point[1])
        [] e1.currentTool = "circle" -> startCircle(e1, point[1])
        [] e1.currentTool = "polygon" -> addPolygonPoint(e1, point[1])
        [] e1.currentTool = "spline" -> startSpline(e1, point[1])
        [] OTHER -> e1

\* finishDrawing without its last statement, this.isDrawing = false
finishDrawingStillDrawing(e) ==
  IF ~e.isDrawing \/ e.currentShape = None THEN e
  ELSE LET point == getWorkplaneIntersection(e) IN
    IF point = None THEN e
    ELSE CASE e.currentTool = "line" -> finishLine(e, point[1])
           [] e.currentTool = "rectangle" -> finishRectangle(e, point[1])
           [] e.currentTool = "circle" -> finishCircle(e, point[1])
           [] e.currentTool = "spline" -> addSplinePoint(e, point[1])
           [] OTHER -> e

finishDrawing(e) ==
  IF ~e.isDrawing \/ e.currentShape = None THEN e
  ELSE LET point == getWorkplaneIntersection(e) IN
    IF point = None THEN e
    ELSE LET e1 ==
               CASE e.currentTool = "line" -> finishLine(e, point[1])
                 [] e.currentTool = "rectangle" -> finishRectangle(e, point[1])
                 [] e.currentTool = "circle" -> finishCircle(e, point[1])
                 [] e.currentTool = "spline" -> addSplinePoint(e, point[1])
                 [] OTHER -> e
         IN [e1 EXCEPT !.isDrawing = FALSE]

finishCurrentSketch(e) ==
  LET e1 ==
        IF e.currentShape # None
          THEN IF e.currentTool = "polygon" /\ Len(e.currentShape[1].points) >= 3
                 THEN finishPolygon(e)
                 ELSE IF e.currentTool = "spline" /\ Len(e.currentShape[1].points) >= 2
                   THEN commitCurrent(createSketchLine(e, e.currentShape[1]))
                   ELSE e
          ELSE e
  IN [clearPreview(e1) EXCEPT !.isDrawing = FALSE]

setTool(e, tool) == finishCurrentSketch([e EXCEPT !.currentTool = tool])

setSketchMode(e, mode) == clearWorkplane([e EXCEPT !.sketchMode = mode])

setSnapToGrid(e, snap) == [e EXCEPT !.snapToGrid = snap]

setGridSize(e, size) ==
  LET e1 == [e EXCEPT !.gridSize = size] IN
  IF e1.gridHelper # None
    THEN LET e2 == IF e1.gridHelper[1].inScene
                     THEN [sceneRemove(e1, "grid") EXCEPT !.gridHelper[1].inScene = FALSE]
                     ELSE e1
         IN IF e2.workplane # None /\ e2.workplaneVisible
              THEN sceneAdd([e2 EXCEPT !.gridHelper =
                               Some([size |-> e2.gridSize, visible |-> TRUE,
                                     inScene |-> TRUE])], "grid")
              ELSE e2
    ELSE e1

setWorkplaneVisible(e, visible) ==
  LET e1 == [e EXCEPT !.workplaneVisible = visible]
      e2 == IF e1.workplane # None
              THEN [e1 EXCEPT !.workplane[1].shown = visible]
              ELSE e1
  IN IF e2.gridHelper # None
       THEN [e2 EXCEPT !.gridHelper[1].visible = visible]
       ELSE e2

getShapes(e) == e.shapes

\* clear without its call of clearPreview
clearKeepingPreview(e) ==
  LET e1 == [e EXCEPT !.shapes = <<>>, !.currentShape = None, !.isDrawing = FALSE]
      e2 == [e1 EXCEPT !.scene["sketchLine"] = @ - e1.sketchLines, !.sketchLines = 0]
      e3 == [e2 EXCEPT !.scene["sketchMesh"] = @ - e2.sketchMeshes, !.sketchMeshes = 0]
  IN clearWorkplane(e3)

clear(e) ==
  LET e1 == [e EXCEPT !.shapes = <<>>, !.currentShape = None, !.isDrawing = FALSE]
      e2 == [e1 EXCEPT !.scene["sketchLine"] = @ - e1.sketchLines, !.sketchLines = 0]
      e3 == [e2 EXCEPT !.scene["sketchMesh"] = @ - e2.sketchMeshes, !.sketchMeshes = 0]
  IN clearWorkplane(clearPreview(e3))

\* handleClick without the test !this.workplane: every click in surface or
\* plane mode acquires a workplane again
handleClickReacquiring(e, ev, hit, cam) ==
  LET e1 == updateMousePosition(e, ev) IN
  IF e1.sketchMode \in {"surface", "plane"}
    THEN createWorkplane(e1, hit, cam)
    ELSE IF e1.workplane # None
      THEN [e |-> e1, ret |-> "throw"]
      ELSE [e |-> e1, ret |-> "false"]

\* handlers called from Viewport3D; ret is the handler's return value,
\* "throw" when the call raises
handleClick(e, ev, hit, cam) ==
  LET e1 == updateMousePosition(e, ev) IN
  IF e1.workplane = None /\ e1.sketchMode \in {"surface", "plane"}
    THEN createWorkplane(e1, hit, cam)
    ELSE IF e1.workplane # None
      \* this.addSketchPoint is not a method of the class: TypeError
      THEN [e |-> e1, ret |-> "throw"]
      ELSE [e |-> e1, ret |-> "false"]

handleMouseDown(e, ev) ==
  IF ev.button = 0 /\ e.workplane # None
    THEN [e |-> startDrawing(updateMousePosition(e, ev)), ret |-> "true"]
    ELSE [e |-> e, ret |-> "false"]

handleMouseMove(e, ev) ==
  LET e1 == updateMousePosition(e, ev) IN
  IF e1.isDrawing /\ e1.currentShape # None
    THEN [e |-> updatePreview(e1), ret |-> "true"]
    ELSE [e |-> e1, ret |-> "false"]

handleMouseUp(e, ev) ==
  IF ev.button = 0 /\ e.isDrawing
    THEN [e |-> finishDrawing(e), ret |-> "true"]
    ELSE [e |-> e, ret |-> "false"]

handleDoubleClick(e, ev) ==
  IF e.currentTool = "polygon" /\ e.currentShape # None
    THEN [e |-> finishPolygon(e), ret |-> "true"]
    ELSE [e |-> e, ret |-> "false"]

\* ------------------------------------------------------------------------
\* Viewport3D (Viewport3D.tsx): the component that owns the engine.  Its
\* props are inputs of each call: active is the prop sketchMode, tool the
\* prop sketchTool, mode the prop sketchModeType, settings the prop
\* sketchSettings; moving is cameraRef.current.orbiting || panning.
\* ------------------------------------------------------------------------
SketchSettings ==
  [snapToGrid : BOOLEAN, gridSize : GridSizes, workplaneVisible : BOOLEAN]

\* the effect that runs when sketchTool, sketchModeType or sketchSettings
\* changed: it calls all five setters, whichever prop changed
settingsEffect(e, tool, mode, settings) ==
  LET e1 == setTool(e, tool)
      e2 == setSketchMode(e1, mode)
      e3 == setSnapToGrid(e2, settings.snapToGrid)
      e4 == setGridSize(e3, settings.gridSize)
  IN setWorkplaneVisible(e4, settings.workplaneVisible)

\* handleMouseUp of Viewport3D without the test of the prop sketchMode
viewportHandleMouseUpAlways(e, active, ev) ==
  handleMouseUp(e, ev).e

\* the pointer handlers of Viewport3D, as far as the engine is concerned:
\* each gives the engine after the event (the camera is not modelled)
viewportHandleMouseDown(e, active, ev) ==
  IF active THEN handleMouseDown(e, ev).e ELSE e

viewportHandleMouseMove(e, active, ev) ==
  IF active THEN handleMouseMove(e, ev).e ELSE e

viewportHandleMouseUp(e, active, ev) ==
  IF active THEN handleMouseUp(e, ev).e ELSE e

\* returns before anything else while the camera is orbiting or panning
viewportHandleCanvasClick(e, active, moving, ev, hit, cam) ==
  IF moving THEN e
  ELSE IF active THEN handleClick(e, ev, hit, cam).e ELSE e

viewportHandleDoubleClick(e, active, ev) ==
  IF active THEN handleDoubleClick(e, ev).e ELSE e

\* ------------------------------------------------------------------------
\* ExtrusionEngine (part_000).  Coordinates are integers in scene units;
\* settings are in hundredths of a scene unit.
\* ------------------------------------------------------------------------
\* Vector3.normalize(): v / (|v| || 1), kept as the direction it scales.
\* The zero vector stays the zero vector.
normalize(v) == [dir |-> v]
\* Vector3.lengthSq() of a normalized vector, in millionths
MicroOne == 1000000
lengthSqMicro(n) == IF n.dir = ZeroVec THEN 0 ELSE MicroOne
\* the threshold 1e-6 of computeNormal, in millionths
EpsilonMicro == 1

RECURSIVE computeNormalFrom(_, _)
computeNormalFrom(points, i) ==
  IF i >= Len(points) THEN None
  ELSE LET a == points[1]
           b == points[i]
           c == points[i + 1]
           ab == subVectors(b, a)
           ac == subVectors(c, a)
           normal == normalize(crossVectors(ab, ac))
       IN IF lengthSqMicro(normal) > EpsilonMicro
            THEN Some(normal)
            ELSE computeNormalFrom(points, i + 1)

\* null is None; the loop index i = 1 of the source is sequence index 2
computeNormal(points) ==
  IF Len(points) < 3 THEN None ELSE computeNormalFrom(points, 2)

\* new THREE.BoxGeometry(1, 1, 1)
BoxSide == 1
BoxGeometry == [kind |-> "box", size |-> <<BoxSide, BoxSide, BoxSide>>]

\* Vector3.lengthSq
lengthSq(v) == dot(v, v)

\* new Matrix4().makeBasis(u, v, normal).invert().  Matrix4.invert gives
\* the zero matrix when the determinant is 0; otherwise the columns are
\* orthonormal here (u lies in the plane of the normal whenever the points
\* are coplanar) and the inverse is the transpose, whose rows are u, v and
\* the normal.
makeBasisInverse(u, v, normal) ==
  IF dot(u.dir, crossVectors(v.dir, normal.dir)) = 0
    THEN [zero |-> TRUE, rows |-> <<>>]
    ELSE [zero |-> FALSE, rows |-> <<u, v, normal>>]

\* a coordinate num / sqrt(lenSq): the dot product of d with the unit
\* vector of direction r.dir
alongUnit(d, r) == [num |-> dot(d, r.dir), lenSq |-> lengthSq(r.dir)]
\* p.clone().sub(origin).applyMatrix4(to2D), of which shape2D takes x and y
applyTo2D(p, origin, to2D) ==
  LET d == subVectors(p, origin) IN
    IF to2D.zero
      THEN [x |-> [num |-> 0, lenSq |-> 1], y |-> [num |-> 0, lenSq |-> 1]]
      ELSE [x |-> alongUnit(d, to2D.rows[1]), y |-> alongUnit(d, to2D.rows[2])]

\* x * (r.dir / |r.dir|) for a coordinate x = num / sqrt(lenSq) taken along
\* the same direction: the vector num * r.dir / lenSq, as [num, den]
scaleUnit(x, r) ==
  IF r.dir = ZeroVec THEN [num |-> ZeroVec, den |-> 1]
  ELSE [num |-> <<x.num * r.dir[1], x.num * r.dir[2], x.num * r.dir[3]>>,
        den |-> lengthSq(r.dir)]
\* toWorld = makeBasis(u, v, normal).setPosition(origin) applied to the
\* point (x, y, 0) of the profile: origin + x u + y v, as origin + num / den
applyToWorld(part, q) ==
  LET a == scaleUnit(q.x, part.u)
      b == scaleUnit(q.y, part.v)
  IN [origin |-> part.origin,
      num |-> <<a.num[1] * b.den + b.num[1] * a.den,
                a.num[2] * b.den + b.num[2] * a.den,
                a.num[3] * b.den + b.num[3] * a.den>>,
      den |-> a.den * b.den]

\* new THREE.ExtrudeGeometry(shape2D, options) in its local frame: the
\* contour at every z from zMin to zMax; the bevel, when enabled, adds
\* bevelThickness below z = 0 and above z = depth
ExtrudeGeometry(shape2D, options) ==
  [contour |-> shape2D,
   zMin |-> IF options.bevelEnabled THEN -options.bevelThickness ELSE 0,
   zMax |-> IF options.bevelEnabled
              THEN options.depth + options.bevelThickness
              ELSE options.depth]

\* extrudeShape with bevelEnabled: true in the place of
\* bevelEnabled: settings.bevelEnabled
extrudeShapeBeveled(shape, settings, normal) ==
  LET pts3D == [k \in 1..Len(shape.points) |->
                  Vec(shape.points[k].x, shape.points[k].y, shape.points[k].z)]
      u == normalize(subVectors(pts3D[2], pts3D[1]))
      v == normalize(crossVectors(normal.dir, u.dir))
      origin == pts3D[1]
      to2D == makeBasisInverse(u, v, normal)
      shape2D == [k \in 1..Len(pts3D) |-> applyTo2D(pts3D[k], origin, to2D)]
  IN [kind |-> "extrude", origin |-> origin, u |-> u, v |-> v,
      normal |-> normal, profile |-> pts3D, shape2D |-> shape2D,
      geometry |-> ExtrudeGeometry(shape2D, [settings EXCEPT !.bevelEnabled = TRUE]),
      options |-> settings]

\* the solid built for one shape (part_000:37-69): the profile flattened
\* to shape2D, extruded with the settings in the local frame (geometry) and
\* carried to world space by (u, v, normal, origin); profile is the list
\* of 3D points it came from
extrudeShape(shape, settings, normal) ==
  LET pts3D == [k \in 1..Len(shape.points) |->
                  Vec(shape.points[k].x, shape.points[k].y, shape.points[k].z)]
      u == normalize(subVectors(pts3D[2], pts3D[1]))
      v == normalize(crossVectors(normal.dir, u.dir))
      origin == pts3D[1]
      to2D == makeBasisInverse(u, v, normal)
      shape2D == [k \in 1..Len(pts3D) |-> applyTo2D(pts3D[k], origin, to2D)]
      extrudeSettings == [depth |-> settings.depth,
                          bevelEnabled |-> settings.bevelEnabled,
                          bevelThickness |-> settings.bevelThickness,
                          bevelSize |-> settings.bevelSize,
                          bevelSegments |-> settings.bevelSegments]
  IN [kind |-> "extrude", origin |-> origin, u |-> u, v |-> v,
      normal |-> normal, profile |-> pts3D, shape2D |-> shape2D,
      geometry |-> ExtrudeGeometry(shape2D, extrudeSettings),
      options |-> extrudeSettings]

\* extrudeLoop with `break` where the source has `continue`: the first
\* shape that is open, too short or degenerate ends the loop
RECURSIVE extrudeLoopAborting(_, _, _)
extrudeLoopAborting(shapeList, settings, i) ==
  IF i > Len(shapeList) THEN <<>>
  ELSE LET shape == shapeList[i]
           pts3D == [k \in 1..Len(shape.points) |->
                       Vec(shape.points[k].x, shape.points[k].y, shape.points[k].z)]
       IN IF ~shape.closed \/ Len(shape.points) < 3 THEN <<>>
          ELSE IF computeNormal(pts3D) = None THEN <<>>
          ELSE <<extrudeShape(shape, settings, computeNormal(pts3D)[1])>>
                 \o extrudeLoopAborting(shapeList, settings, i + 1)

\* the for loop of extrudeSketch from shape i on: the geometries it pushes
RECURSIVE extrudeLoop(_, _, _)
extrudeLoop(shapeList, settings, i) ==
  IF i > Len(shapeList) THEN <<>>
  ELSE LET shape == shapeList[i]
           rest == extrudeLoop(shapeList, settings, i + 1)
       IN IF ~shape.closed \/ Len(shape.points) < 3 THEN rest
          ELSE LET pts3D == [k \in 1..Len(shape.points) |->
                               Vec(shape.points[k].x, shape.points[k].y,
                                   shape.points[k].z)]
                   normal == computeNormal(pts3D)
               IN IF normal = None THEN rest
                  ELSE <<extrudeShape(shape, settings, normal[1])>> \o rest

\* mergeGeometries(geometries, false), then computeVertexNormals and
\* computeBoundingBox
mergeGeometries(geometries) == [kind |-> "merged", parts |-> geometries]

\* extrudeSketch without its second fallback (part_000:74-76): an empty
\* list of geometries is merged as it is
extrudeSketchNoFallback(shapeList, settings) ==
  IF Len(shapeList) = 0 THEN BoxGeometry
  ELSE mergeGeometries(extrudeLoop(shapeList, settings, 1))

extrudeSketch(shapeList, settings) ==
  IF Len(shapeList) = 0 THEN BoxGeometry
  ELSE LET geometries == extrudeLoop(shapeList, settings, 1)
       IN IF Len(geometries) = 0 THEN BoxGeometry
          ELSE mergeGeometries(geometries)

\* the arguments as extrudeSketch would leave them if it projected the
\* points of the caller in place (p.sub(origin) on the points themselves)
extrudeSketchArgumentsInPlace(shapeList, settings) ==
  [shapes |-> [i \in 1..Len(shapeList) |->
      LET shape == shapeList[i] IN
      IF ~shape.closed \/ Len(shape.points) < 3 THEN shape
      ELSE [shape EXCEPT !.points =
              [j \in 1..Len(@) |->
                 [@[j] EXCEPT !.x = @ - shape.points[1].x,
                              !.y = @ - shape.points[1].y,
                              !.z = @ - shape.points[1].z]]]],
   settings |-> settings]

\* the arguments of extrudeSketch after the call.  The method is static
\* and the class has no field; it reads shape.closed and shape.points,
\* copies every point into a new Vector3 (pts3D), subtracts the origin
\* from a clone of each and copies the settings field by field into
\* extrudeSettings: it writes to nothing the caller passed.
extrudeSketchArguments(shapeList, settings) ==
  [shapes |-> shapeList, settings |-> settings]

\* ------------------------------------------------------------------------
\* The second ExtrusionEngine of the repository (part_001:12-161), which
\* flattens with projectTo2D.  A projected coordinate is
\* num / (count * sqrt(lenSq)): the dot product of count * point - sum of
\* the points with the direction of a unit axis.
\* ------------------------------------------------------------------------
RECURSIVE sumVectors(_, _)
sumVectors(points, k) ==
  IF k = 0 THEN ZeroVec ELSE addVectors(sumVectors(points, k - 1), points[k])

\* the loop that looks for the second axis: the first i >= 2 (sequence
\* index i + 1) whose point gives |v1 x (p_i - p_0)| > 0.001, else the
\* cross product left by the last pass (the zero vector if none ran).
\* With integer coordinates below 1000 a non-zero cross product with the
\* unit v1 is longer than 0.001.
RECURSIVE secondAxisFrom(_, _, _)
secondAxisFrom(points3D, v1, i) ==
  IF i > Len(points3D) THEN normalize(ZeroVec)
  ELSE LET temp == subVectors(points3D[i], points3D[1])
           v2 == crossVectors(v1.dir, temp)
       IN IF v2 # ZeroVec THEN normalize(v2)
          ELSE secondAxisFrom(points3D, v1, i + 1)

\* Math.abs(v1.y) < 0.9 for the unit vector of direction d
mostlyOffY(d) == 100 * d[2] * d[2] < 81 * lengthSq(d)

projectTo2D(points3D) ==
  IF Len(points3D) < 2 THEN <<>>
  ELSE LET count == Len(points3D)
           sum == sumVectors(points3D, count)
           v1 == normalize(subVectors(points3D[2], points3D[1]))
           found == secondAxisFrom(points3D, v1, 3)
           v2 == IF found.dir # ZeroVec THEN found
                 ELSE IF mostlyOffY(v1.dir) \/ v1.dir = ZeroVec
                   THEN normalize(crossVectors(v1.dir, <<0, 1, 0>>))
                   ELSE normalize(crossVectors(v1.dir, <<1, 0, 0>>))
       IN [k \in 1..count |->
             LET relative == subVectors(multiplyScalar(points3D[k], count), sum)
             IN [x |-> [num |-> dot(relative, v1.dir), lenSq |-> lengthSq(v1.dir),
                        count |-> count],
                 y |-> [num |-> dot(relative, v2.dir), lenSq |-> lengthSq(v2.dir),
                        count |-> count]]]

\* the forEach of the second extrudeSketch from shape i on: the
\* THREE.Shapes it pushes, each with the index and the points of the
\* sketch shape it was made from
RECURSIVE threeShapesFrom(_, _)
threeShapesFrom(shapeList, i) ==
  IF i > Len(shapeList) THEN <<>>
  ELSE LET shape == shapeList[i]
           rest == threeShapesFrom(shapeList, i + 1)
           points3D == [k \in 1..Len(shape.points) |->
                          Vec(shape.points[k].x, shape.points[k].y, shape.points[k].z)]
           points2D == projectTo2D(points3D)
           closing == IF shape.closed \/ shape.type \in {"rectangle", "circle"}
                        THEN <<points2D[1]>> ELSE <<>>
       IN IF Len(shape.points) >= 2 /\ Len(points2D) > 0
            THEN <<[index |-> i, profile |-> points3D,
                    contour |-> points2D \o closing]>> \o rest
            ELSE rest

\* the second extrudeSketch: the fallback box for no shape or no shape of
\* two points, else the extrusion of the first THREE.Shape alone, centred
\* on its bounding box (ExtrudeGeometry does not throw on a degenerate
\* contour, so the catch branch is not taken)
extrudeSketchAlt(shapeList, settings) ==
  IF Len(shapeList) = 0 THEN BoxGeometry
  ELSE LET threeShapes == threeShapesFrom(shapeList, 1)
           extrudeSettings == [depth |-> settings.depth,
                               bevelEnabled |-> settings.bevelEnabled,
                               bevelThickness |-> settings.bevelThickness,
                               bevelSize |-> settings.bevelSize,
                               bevelSegments |-> settings.bevelSegments]
       IN IF Len(threeShapes) = 0 THEN BoxGeometry
          ELSE [kind |-> "centred",
                parts |-> <<[kind |-> "extrude",
                             index |-> threeShapes[1].index,
                             profile |-> threeShapes[1].profile,
                             geometry |-> ExtrudeGeometry(threeShapes[1].contour,
                                                          extrudeSettings),
                             options |-> extrudeSettings]>>]

\* createExtrusionPresets of the variant with projectTo2D
\* (part_001:136-160), lengths in hundredths
createExtrusionPresetsAlt ==
  [simple |-> [depth |-> 100, bevelEnabled |-> FALSE, bevelThickness |-> 0,
               bevelSize |-> 0, bevelSegments |-> 1],
   beveled |-> [depth |-> 100, bevelEnabled |-> TRUE, bevelThickness |-> 10,
                bevelSize |-> 10, bevelSegments |-> 3],
   deep |-> [depth |-> 200, bevelEnabled |-> TRUE, bevelThickness |-> 5,
             bevelSize |-> 5, bevelSegments |-> 2]]

\* the table with the depth of deep left at 1
createExtrusionPresetsShallow ==
  [createExtrusionPresetsAlt EXCEPT !.deep.depth = 100]

\* createExtrusionPresets (part_000:98-122), lengths in hundredths
createExtrusionPresets ==
  [simple |-> [depth |-> 100, bevelEnabled |-> FALSE, bevelThickness |-> 0,
               bevelSize |-> 0, bevelSegments |-> 1],
   beveled |-> [depth |-> 100, bevelEnabled |-> TRUE, bevelThickness |-> 10,
                bevelSize |-> 10, bevelSegments |-> 3],
   deep |-> [depth |-> 200, bevelEnabled |-> TRUE, bevelThickness |-> 5,
             bevelSize |-> 5, bevelSegments |-> 2]]

\* ------------------------------------------------------------------------
\* Inputs of extrudeSketch: profiles over four points of the plane z = 0,
\* A, B, C on one line and D off it (open and closed, too short, collinear,
\* with a repeated first point, returning to the first point, spanning a
\* plane from the first triple or only from a later one)
\* ------------------------------------------------------------------------
PA == <<0, 0, 0>>
PB == <<1, 0, 0>>
PC == <<2, 0, 0>>
PD == <<0, 1, 0>>
ExProfiles ==
  { <<>>, <<PA, PB>>, <<PA, PB, PC>>, <<PA, PB, PD>>, <<PA, PB, PC, PD>>,
    <<PA, PA, PD>>, <<PA, PA, PB, PD>>, <<PA, PB, PA, PD>>, <<PD, PC, PA>> }
SketchPoints(profile) ==
  [k \in 1..Len(profile) |->
     [x |-> profile[k][1], y |-> profile[k][2], z |-> profile[k][3], id |-> k]]
ExShapes ==
  { [type |-> t, points |-> SketchPoints(pr), id |-> 0, closed |-> c] :
      t \in {"line", "polygon"}, pr \in ExProfiles, c \in BOOLEAN }
RECURSIVE ListsUpTo(_, _)
ListsUpTo(S, n) ==
  IF n = 0 THEN {<<>>}
  ELSE LET shorter == ListsUpTo(S, n - 1)
       IN shorter \cup {Append(l, x) : l \in {m \in shorter : Len(m) = n - 1}, x \in S}
\* the presets, and the beveled preset with its bevel switched off
ExSettings ==
  {createExtrusionPresets[n] : n \in DOMAIN createExtrusionPresets}
    \cup {[createExtrusionPresets.beveled EXCEPT !.bevelEnabled = FALSE]}

\* ------------------------------------------------------------------------
\* OffsetEngine (./three/OffsetEngine is not among the sources: its two
\* operations follow section 4.5 of the specification; their callers are
\* App.tsx:309-347).  A mesh buffer is [id, position, normal, walls,
\* disposed]: id names the buffer object, position and normal hold one
\* entry per vertex, three consecutive vertices are a face (faces are
\* numbered from 0), walls counts the regenerated side-wall bands.
\* Lengths are in tenths of a scene unit, normals are axis unit vectors.
\* A call gives [input, output]: the buffer passed in as the call leaves
\* it, and the buffer returned.
\* ------------------------------------------------------------------------
FacesOf(mesh) == 0..((Len(mesh.position) \div 3) - 1)
VerticesOf(faceIndex) == {3 * faceIndex + 1, 3 * faceIndex + 2, 3 * faceIndex + 3}

\* offsetFace displacing the vertices of the buffer it was given
offsetFaceInPlace(mesh, faceIndex, distance) ==
  LET moved == [mesh EXCEPT
        !.position = [k \in 1..Len(@) |->
           IF k \in VerticesOf(faceIndex)
             THEN addVectors(@[k], multiplyScalar(mesh.normal[3 * faceIndex + 1], distance))
             ELSE @[k]],
        !.walls = @ + 1]
  IN [input |-> moved, output |-> moved]

\* the vertices of the face move along the face normal by distance, a
\* band of side walls joins the moved face to its old outline
offsetFace(mesh, faceIndex, distance) ==
  [input |-> mesh,
   output |-> [id |-> mesh.id + 1,
               position |-> [k \in 1..Len(mesh.position) |->
                  IF k \in VerticesOf(faceIndex)
                    THEN addVectors(mesh.position[k],
                           multiplyScalar(mesh.normal[3 * faceIndex + 1], distance))
                    ELSE mesh.position[k]],
               normal |-> mesh.normal,
               walls |-> mesh.walls + 1,
               disposed |-> FALSE]]

\* every vertex moves along its own normal by distance
offsetBody(mesh, distance) ==
  [input |-> mesh,
   output |-> [id |-> mesh.id + 1,
               position |-> [k \in 1..Len(mesh.position) |->
                  addVectors(mesh.position[k], multiplyScalar(mesh.normal[k], distance))],
               normal |-> mesh.normal,
               walls |-> mesh.walls,
               disposed |-> FALSE]]

\* handleOffsetFace and handleOffsetBody of App.tsx on the geometry of the
\* selected object: dispose it, pass it to the engine with the constants
\* of the call, give the object a mesh of the returned geometry
OffsetFaceIndex == 0
OffsetFaceDistance == 2
OffsetBodyDistance == 1
handleOffsetFace(geometry) ==
  offsetFace([geometry EXCEPT !.disposed = TRUE], OffsetFaceIndex, OffsetFaceDistance)
handleOffsetBody(geometry) ==
  offsetBody([geometry EXCEPT !.disposed = TRUE], OffsetBodyDistance)

\* ------------------------------------------------------------------------
\* The App's object list (App.tsx), the registry of ThreeRenderer and the
\* object-sync effect of Viewport3D that copies the one into the other.
\* An object is [id, geometry, visible]; geometry names a BufferGeometry,
\* buffers[g] tells what made that buffer and whether it has been
\* disposed. A Map is a
\* function on its keys. The state is the one after the initialisation
\* effect (Viewport3D.tsx:345-361): the renderer exists and isInitialized
\* is true.
\* ------------------------------------------------------------------------
View ==
  [objects |-> objects, selectedObjectId |-> selectedObjectId,
   generated |-> generated, buffers |-> buffers,
   rendererObjects |-> rendererObjects, prevObjects |-> prevObjects]
EmptyMap == <<>>
mapSet(m, key, value) ==
  [k \in DOMAIN m \cup {key} |-> IF k = key THEN value ELSE m[k]]
mapDelete(m, key) == [k \in DOMAIN m \ {key} |-> m[k]]
IdsOf(objs) == {objs[i].id : i \in 1..Len(objs)}

\* a BufferGeometry that did not exist before (a constructor or clone())
newGeometry(v) == Len(v.buffers) + 1
allocate(v, made) ==
  [v EXCEPT !.buffers = Append(@, [made |-> made, disposed |-> FALSE])]
dispose(v, geometry) == [v EXCEPT !.buffers[geometry].disposed = TRUE]

\* ThreeRenderer: the mesh is built on the geometry object it is handed
addObject(v, id, geometry) ==
  [v EXCEPT !.rendererObjects =
     mapSet(@, id, [geometry |-> geometry, selected |-> FALSE, visible |-> TRUE])]
removeObject(v, id) ==
  IF id \in DOMAIN v.rendererObjects
    THEN [dispose(v, v.rendererObjects[id].geometry) EXCEPT
            !.rendererObjects = mapDelete(@, id)]
    ELSE v
\* position, rotation, scale, colour, visibility and selection are
\* copied; the mesh keeps its geometry
updateObject(v, id, updates) ==
  IF id \notin DOMAIN v.rendererObjects THEN v
  ELSE [v EXCEPT !.rendererObjects[id].visible = updates.visible,
                 !.rendererObjects[id].selected = updates.selected]

\* the two loops of the object-sync effect
RECURSIVE removeDeleted(_, _)
removeDeleted(v, ids) ==
  IF ids = {} THEN v
  ELSE LET id == CHOOSE x \in ids : TRUE
           v1 == IF id \notin IdsOf(v.objects)
                   THEN [removeObject(v, id) EXCEPT !.prevObjects = mapDelete(@, id)]
                   ELSE v
       IN removeDeleted(v1, ids \ {id})
RECURSIVE addOrUpdate(_, _)
addOrUpdate(v, k) ==
  IF k > Len(v.objects) THEN v
  ELSE LET obj == v.objects[k]
           v1 == IF obj.id \notin DOMAIN v.prevObjects
                   THEN addObject(v, obj.id, obj.geometry)
                   ELSE v
           v2 == updateObject(v1, obj.id,
                   [visible |-> obj.visible,
                    selected |-> v.selectedObjectId = Some(obj.id)])
           v3 == [v2 EXCEPT !.prevObjects = mapSet(@, obj.id, obj)]
       IN addOrUpdate(v3, k + 1)

\* the effect without its first loop: nothing is removed
objectSyncKeepingDeleted(v) == addOrUpdate(v, 1)
objectSync(v) == addOrUpdate(removeDeleted(v, DOMAIN v.prevObjects), 1)

\* App.tsx: `${type}-${Date.now()}-${random}`, taken as never repeating
generateId(v) == v.generated + 1
appendObject(v, geometry) ==
  LET id == generateId(v) IN
  [v EXCEPT !.objects = Append(@, [id |-> id, geometry |-> geometry, visible |-> TRUE]),
            !.generated = id,
            !.selectedObjectId = Some(id)]
addPrimitive(v) == appendObject(allocate(v, "primitive"), newGeometry(v))
deleteSelected(v) ==
  IF v.selectedObjectId = None THEN v
  ELSE [v EXCEPT !.objects = SelectSeq(@, LAMBDA obj : obj.id # v.selectedObjectId[1]),
                 !.selectedObjectId = None]
duplicateSelected(v) ==
  IF v.selectedObjectId = None \/ v.selectedObjectId[1] \notin IdsOf(v.objects)
    THEN v
    ELSE appendObject(allocate(v, "clone"), newGeometry(v))
toggleSelectedVisibility(v) ==
  IF v.selectedObjectId = None THEN v
  ELSE [v EXCEPT !.objects = [k \in 1..Len(@) |->
          IF @[k].id = v.selectedObjectId[1]
            THEN [@[k] EXCEPT !.visible = ~@] ELSE @[k]]]
selectObject(v, id) == [v EXCEPT !.selectedObjectId = id]
\* handleOffsetFace and handleOffsetBody on the object list: the geometry
\* of the selected object is disposed and the object gets a mesh of the
\* geometry the engine returns
offsetSelected(v, made) ==
  IF v.selectedObjectId = None THEN v
  ELSE LET RECURSIVE each(_, _)
           each(w, k) ==
             IF k > Len(w.objects) THEN w
             ELSE IF w.objects[k].id = w.selectedObjectId[1]
               THEN each([allocate(dispose(w, w.objects[k].geometry), made) EXCEPT
                            !.objects[k].geometry = newGeometry(w)], k + 1)
               ELSE each(w, k + 1)
       IN each(v, 1)

\* ------------------------------------------------------------------------
\* Environment of the engine: pointer events, ray hits, the camera
\* ------------------------------------------------------------------------
\* pointer events with the pointer over one of the picks P or off the
\* workplane mesh
EventsAt(P) == [button : Buttons, pos : P \cup {Miss}]
\* a ray can meet an object of the kind: a solid always, the preview ring
\* of RingGeometry(0.98 r, 1.02 r) only when its radius is not zero
canBeHit(e, kind) ==
  kind = "previewMesh" => (e.previewMesh # None /\ e.previewMesh[1].radiusSq > 0)
\* where a workplane can be anchored
Origins == {<<0, 0, 0>>}
\* the nearest intersection of the click ray with the ray-tested objects,
\* on a face whose world normal is one of N
Hits(e, N) == {None} \cup
  {Some(h) : h \in [kind : {k \in rayTested(e) : canBeHit(e, k)},
                     position : Origins, normal : N]}
\* camera.position + 5 * direction and -direction, in plane mode
Cams(N) == [position : Origins, normal : N]

\* History of the session, kept for the claims only: down, a pick gesture
\* has begun on the workplane (a primary pointer-down whose ray hit it) and
\* is not yet completed; picks, the pick gestures completed on the
\* workplane since the last finish action, tool or mode change or clear
\* (counted up to MaxPoints).
NoPicks == [down |-> FALSE, picks |-> 0]
PickBegun(e, ev) ==
  IF ev.button = 0 /\ e.workplane # None
       /\ getWorkplaneIntersection(updateMousePosition(e, ev)) # None
    THEN [hist EXCEPT !.down = TRUE]
    ELSE hist
PickEnded(e, ev) ==
  IF ev.button = 0 /\ e.isDrawing /\ hist.down
       /\ getWorkplaneIntersection(e) # None
    THEN [down |-> FALSE,
          picks |-> IF hist.picks < MaxPoints THEN hist.picks + 1 ELSE hist.picks]
    ELSE hist

WithinBounds(e) ==
  /\ Len(e.shapes) <= MaxShapes
  /\ e.currentShape # None => Len(e.currentShape[1].points) <= MaxPoints

\* ------------------------------------------------------------------------
\* Init: the engine after its constructor (part_001:188-211)
\* ------------------------------------------------------------------------
EngineInit ==
  /\ shapes = <<>>
  /\ currentTool = "line"
  /\ sketchMode = "surface"
  /\ isDrawing = FALSE
  /\ currentShape = None
  /\ workplane = None
  /\ gridHelper = None
  /\ snapToGrid = TRUE
  /\ gridSize = DefaultGridSize
  /\ workplaneVisible = TRUE
  /\ sketchLines = 0
  /\ sketchMeshes = 0
  /\ previewLine = FALSE
  /\ previewMesh = None
  /\ scene = [k \in SceneKinds |-> 0]
  /\ mouse = Miss
  /\ now = 0
  /\ hist = NoPicks

\* the App starts without objects (App.tsx:27-28), the renderer and the
\* effect's map start empty
SyncInit ==
  /\ objects = <<>>
  /\ selectedObjectId = None
  /\ generated = 0
  /\ buffers = <<>>
  /\ rendererObjects = EmptyMap
  /\ prevObjects = EmptyMap

\* no extrusion requested
ExIdle ==
  /\ exShapes = <<>>
  /\ exSettings = createExtrusionPresets.simple
  /\ exResult = None
  /\ nrmPoints = <<>>
  /\ nrmResult = None
  /\ offMesh = None
  /\ offInput = None
  /\ SyncInit

Init == EngineInit /\ ExIdle

\* ------------------------------------------------------------------------
\* Actions: one per public method of SketchEngine3D
\* ------------------------------------------------------------------------
HandleClick(ev, hit, cam) ==
  LET r == handleClick(Self, ev, hit, cam) IN
  /\ WithinBounds(r.e)
  /\ Become(r.e)
  /\ hist' = hist
  /\ UNCHANGED <<now, exVars>>

HandleMouseDown(ev) ==
  LET r == handleMouseDown(Self, ev) IN
  /\ WithinBounds(r.e)
  /\ Become(r.e)
  /\ hist' = PickBegun(Self, ev)
  /\ UNCHANGED <<now, exVars>>

HandleMouseMove(ev) ==
  LET r == handleMouseMove(Self, ev) IN
  /\ WithinBounds(r.e)
  /\ Become(r.e)
  /\ hist' = hist
  /\ UNCHANGED <<now, exVars>>

HandleMouseUp(ev) ==
  LET r == handleMouseUp(Self, ev) IN
  /\ WithinBounds(r.e)
  /\ Become(r.e)
  /\ hist' = PickEnded(Self, ev)
  /\ UNCHANGED <<now, exVars>>

HandleDoubleClick(ev) ==
  LET r == handleDoubleClick(Self, ev) IN
  /\ WithinBounds(r.e)
  /\ Become(r.e)
  /\ hist' = (IF r.ret = "true" THEN NoPicks ELSE hist)
  /\ UNCHANGED <<now, exVars>>

SetTool(tool) ==
  LET e == setTool(Self, tool) IN
  /\ WithinBounds(e)
  /\ Become(e)
  /\ hist' = NoPicks
  /\ UNCHANGED <<now, exVars>>

SetSketchMode(mode) ==
  /\ Become(setSketchMode(Self, mode))
  /\ hist' = NoPicks
  /\ UNCHANGED <<now, exVars>>

SetSnapToGrid(snap) ==
  /\ Become(setSnapToGrid(Self, snap))
  /\ hist' = hist
  /\ UNCHANGED <<now, exVars>>

SetGridSize(size) ==
  /\ Become(setGridSize(Self, size))
  /\ hist' = hist
  /\ UNCHANGED <<now, exVars>>

SetWorkplaneVisible(visible) ==
  /\ Become(setWorkplaneVisible(Self, visible))
  /\ hist' = hist
  /\ UNCHANGED <<now, exVars>>

FinishCurrentSketch ==
  LET e == finishCurrentSketch(Self) IN
  /\ WithinBounds(e)
  /\ Become(e)
  /\ hist' = NoPicks
  /\ UNCHANGED <<now, exVars>>

Clear ==
  /\ Become(clear(Self))
  /\ hist' = NoPicks
  /\ UNCHANGED <<now, exVars>>

\* Date.now() advances between two calls
Tick ==
  /\ now < MaxClock
  /\ now' = now + 1
  /\ UNCHANGED <<engineVars, hist, exVars>>

\* the pointer handlers, with the pointer over the picks P and workplanes
\* facing along the normals N
Pointer(P, N) ==
  \/ \E ev \in EventsAt(P), hit \in Hits(Self, N), cam \in Cams(N) :
       HandleClick(ev, hit, cam)
  \/ \E ev \in EventsAt(P) : HandleMouseDown(ev)
  \/ \E ev \in EventsAt(P) : HandleMouseMove(ev)
  \/ \E ev \in EventsAt(P) : HandleMouseUp(ev)
  \/ \E ev \in EventsAt(P) : HandleDoubleClick(ev)

\* The capture state machine: every pointer handler, tool and mode
\* changes, finish and clear.  The pointer is over one pick or off the
\* workplane, workplanes face +Z, the settings stay as constructed and all
\* calls fall in one clock tick.
Picks == {<<2, 2>>}
FacingZ == {"z"}
Next ==
  \/ Pointer(Picks, FacingZ)
  \/ \E tool \in Tools : SetTool(tool)
  \/ \E mode \in Modes : SetSketchMode(mode)
  \/ FinishCurrentSketch
  \/ Clear

Spec == Init /\ [][Next]_vars

\* Rectangle gestures on workplanes of every orientation: the rectangle
\* tool, picks at two opposite corners of a square of the workplane, no
\* mode change.
RectPicks == {<<0, 0>>, <<2, 2>>}
NextRect ==
  \/ Pointer(RectPicks, Normals)
  \/ SetTool("rectangle")
  \/ Clear

SpecRect == Init /\ [][NextRect]_vars

\* Workplane acquisition around the circle tool: the pointer is over one
\* of two picks, so that a preview ring can have a radius, and the mode
\* changes while circles are drawn.
AcquirePicks == {<<0, 0>>, <<2, 0>>}
NextAcquire ==
  \/ Pointer(AcquirePicks, FacingZ)
  \/ SetTool("circle")
  \/ \E mode \in Modes : SetSketchMode(mode)
  \/ Clear

SpecAcquire == Init /\ [][NextAcquire]_vars

\* Grid snapping: lines drawn from a pick that lies off the grid, on
\* workplanes facing along any axis, while snapping is switched and the
\* grid size changes.
SnapPicks == {<<1, 3>>}
NextSnap ==
  \/ Pointer(SnapPicks, Normals)
  \/ \E snap \in BOOLEAN : SetSnapToGrid(snap)
  \/ \E size \in GridSizes : SetGridSize(size)
  \/ Clear

SpecSnap == Init /\ [][NextSnap]_vars

\* identifiers: line and rectangle gestures on one workplane while the
\* clock may advance, or not, between any two handler calls
ClockTools == {"line", "rectangle"}
NextClock ==
  \/ Pointer(Picks, FacingZ)
  \/ \E tool \in ClockTools : SetTool(tool)
  \/ Tick
  \/ Clear

SpecClock == Init /\ [][NextClock]_vars

\* the workplane grid: line gestures on one workplane while the grid size
\* and the workplane visibility are set in any order
NextGrid ==
  \/ Pointer(Picks, FacingZ)
  \/ \E size \in GridSizes : SetGridSize(size)
  \/ \E visible \in BOOLEAN : SetWorkplaneVisible(visible)
  \/ Clear

SpecGrid == Init /\ [][NextGrid]_vars

\* Settings changed while sketching: the props of Viewport3D change and
\* its effect passes them to the engine, between pointer events over one
\* pick on workplanes facing +Z.  The props name the polygon tool and
\* the plane mode; the engine starts with the line tool in surface mode.
SettingsEffect(tool, mode, settings) ==
  LET e == settingsEffect(Self, tool, mode, settings) IN
  /\ WithinBounds(e)
  /\ Become(e)
  /\ hist' = NoPicks
  /\ UNCHANGED <<now, exVars>>

SettingsTools == {"polygon"}
SettingsModes == {"plane"}
NextSettings ==
  \/ Pointer(Picks, FacingZ)
  \/ \E tool \in SettingsTools, mode \in SettingsModes,
        settings \in SketchSettings : SettingsEffect(tool, mode, settings)
  \/ Clear

SpecSettings == Init /\ [][NextSettings]_vars

\* Pointer events as Viewport3D receives them, with the prop sketchMode on
\* or off and the camera moving or not, over one of two picks on
\* workplanes facing +Z; the engine keeps the line tool and surface mode.
ViewportPointer(P, N) ==
  \E active \in BOOLEAN, ev \in EventsAt(P) :
    \/ \E moving \in BOOLEAN, hit \in Hits(Self, N), cam \in Cams(N) :
         LET e == viewportHandleCanvasClick(Self, active, moving, ev, hit, cam) IN
         /\ WithinBounds(e)
         /\ Become(e)
         /\ hist' = hist
         /\ UNCHANGED <<now, exVars>>
    \/ LET e == viewportHandleMouseDown(Self, active, ev) IN
         /\ WithinBounds(e)
         /\ Become(e)
         /\ hist' = (IF active THEN PickBegun(Self, ev) ELSE hist)
         /\ UNCHANGED <<now, exVars>>
    \/ LET e == viewportHandleMouseMove(Self, active, ev) IN
         /\ WithinBounds(e)
         /\ Become(e)
         /\ hist' = hist
         /\ UNCHANGED <<now, exVars>>
    \/ LET e == viewportHandleMouseUp(Self, active, ev) IN
         /\ WithinBounds(e)
         /\ Become(e)
         /\ hist' = (IF active THEN PickEnded(Self, ev) ELSE hist)
         /\ UNCHANGED <<now, exVars>>
    \/ LET e == viewportHandleDoubleClick(Self, active, ev) IN
         /\ WithinBounds(e)
         /\ Become(e)
         /\ hist' = hist
         /\ UNCHANGED <<now, exVars>>

NextViewport ==
  \/ ViewportPointer(AcquirePicks, FacingZ)
  \/ Clear

SpecViewport == Init /\ [][NextViewport]_vars

\* ------------------------------------------------------------------------
\* extrudeSketch as a function of its arguments: Init draws the shape
\* list and the settings, Extrude applies the function once
\* ------------------------------------------------------------------------
InitExtrude ==
  /\ EngineInit
  /\ exShapes \in ListsUpTo(ExShapes, MaxInput)
  /\ exSettings \in ExSettings
  /\ exResult = None
  /\ nrmPoints = <<>>
  /\ nrmResult = None
  /\ offMesh = None
  /\ offInput = None
  /\ SyncInit

Extrude ==
  /\ exResult = None
  /\ exResult' = Some(extrudeSketch(exShapes, exSettings))
  /\ exShapes' = extrudeSketchArguments(exShapes, exSettings).shapes
  /\ exSettings' = extrudeSketchArguments(exShapes, exSettings).settings
  /\ UNCHANGED <<engineVars, now, hist, nrmPoints, nrmResult, offMesh, offInput,
                 syncVars>>

NextExtrude == Extrude

SpecExtrude == InitExtrude /\ [][NextExtrude]_vars

\* extrudeSketch called again and again: the caller passes a shape list
\* of at most one shape and settings of its choice, then makes the call
Request(shapeList, settings) ==
  /\ exShapes' = shapeList
  /\ exSettings' = settings
  /\ exResult' = None
  /\ UNCHANGED <<engineVars, now, hist, nrmPoints, nrmResult, offMesh, offInput,
                 syncVars>>

NextRepeat ==
  \/ \E shapeList \in ListsUpTo(ExShapes, 1), settings \in ExSettings :
       Request(shapeList, settings)
  \/ Extrude

SpecRepeat == Init /\ [][NextRepeat]_vars

\* ------------------------------------------------------------------------
\* Offsets of the selected object: its geometry is one of three small
\* meshes (a triangle facing +Z, the same lifted, a strip of two faces
\* facing +Z and -X) and the two handlers of App.tsx are called in any
\* order while fewer than MaxBuffers buffers were made.
\* ------------------------------------------------------------------------
MaxBuffers == 6
\* most object ids generateId hands out in one session
MaxObjects == 3
\* most geometry buffers the App allocates in one session
MaxGeometries == 4
FlatTriangle == <<<<0, 0, 0>>, <<10, 0, 0>>, <<0, 10, 0>>>>
SideTriangle == <<<<0, 0, 0>>, <<0, 10, 0>>, <<0, 0, -10>>>>
UnitZ == <<0, 0, 1>>
UnitMinusX == <<-1, 0, 0>>
OffsetMeshes ==
  { [id |-> 0, position |-> FlatTriangle,
     normal |-> <<UnitZ, UnitZ, UnitZ>>, walls |-> 0, disposed |-> FALSE],
    [id |-> 0, position |-> [k \in 1..3 |-> addVectors(FlatTriangle[k], <<0, 0, 5>>)],
     normal |-> <<UnitZ, UnitZ, UnitZ>>, walls |-> 0, disposed |-> FALSE],
    [id |-> 0, position |-> FlatTriangle \o SideTriangle,
     normal |-> <<UnitZ, UnitZ, UnitZ, UnitMinusX, UnitMinusX, UnitMinusX>>,
     walls |-> 0, disposed |-> FALSE] }

InitOffset ==
  /\ EngineInit
  /\ exShapes = <<>>
  /\ exSettings = createExtrusionPresets.simple
  /\ exResult = None
  /\ nrmPoints = <<>>
  /\ nrmResult = None
  /\ offMesh \in {Some(m) : m \in OffsetMeshes}
  /\ offInput = None
  /\ SyncInit

HandleOffsetFace ==
  /\ offMesh # None
  /\ offMesh[1].id < MaxBuffers
  /\ offInput' = Some(handleOffsetFace(offMesh[1]).input)
  /\ offMesh' = Some(handleOffsetFace(offMesh[1]).output)
  /\ UNCHANGED <<engineVars, now, hist, exShapes, exSettings, exResult,
                 nrmPoints, nrmResult, syncVars>>

HandleOffsetBody ==
  /\ offMesh # None
  /\ offMesh[1].id < MaxBuffers
  /\ offInput' = Some(handleOffsetBody(offMesh[1]).input)
  /\ offMesh' = Some(handleOffsetBody(offMesh[1]).output)
  /\ UNCHANGED <<engineVars, now, hist, exShapes, exSettings, exResult,
                 nrmPoints, nrmResult, syncVars>>

NextOffset == HandleOffsetFace \/ HandleOffsetBody

SpecOffset == InitOffset /\ [][NextOffset]_vars

\* objects are added, deleted, duplicated, updated and selected in the App
\* while the effect of Viewport3D brings the renderer up to date
restVars == <<engineVars, now, hist, exShapes, exSettings, exResult,
              nrmPoints, nrmResult, offMesh, offInput>>
BecomeView(v) ==
  /\ objects' = v.objects
  /\ selectedObjectId' = v.selectedObjectId
  /\ generated' = v.generated
  /\ buffers' = v.buffers
  /\ rendererObjects' = v.rendererObjects
  /\ prevObjects' = v.prevObjects
AddPrimitive ==
  /\ generated < MaxObjects
  /\ Len(buffers) < MaxGeometries
  /\ BecomeView(addPrimitive(View))
  /\ UNCHANGED restVars
DeleteSelected ==
  /\ BecomeView(deleteSelected(View))
  /\ UNCHANGED restVars
DuplicateSelected ==
  /\ generated < MaxObjects
  /\ Len(buffers) < MaxGeometries
  /\ BecomeView(duplicateSelected(View))
  /\ UNCHANGED restVars
ToggleSelectedVisibility ==
  /\ BecomeView(toggleSelectedVisibility(View))
  /\ UNCHANGED restVars
SelectObject(id) ==
  /\ BecomeView(selectObject(View, id))
  /\ UNCHANGED restVars
OffsetSelectedFace ==
  /\ Len(buffers) < MaxGeometries
  /\ BecomeView(offsetSelected(View, "offsetFace"))
  /\ UNCHANGED restVars
OffsetSelectedBody ==
  /\ Len(buffers) < MaxGeometries
  /\ BecomeView(offsetSelected(View, "offsetBody"))
  /\ UNCHANGED restVars
ObjectSyncEffect ==
  /\ BecomeView(objectSync(View))
  /\ UNCHANGED restVars

NextSync ==
  \/ AddPrimitive
  \/ DeleteSelected
  \/ DuplicateSelected
  \/ ToggleSelectedVisibility
  \/ \E id \in {None} \cup {Some(i) : i \in IdsOf(objects)} : SelectObject(id)
  \/ OffsetSelectedFace
  \/ OffsetSelectedBody
  \/ ObjectSyncEffect

SpecSync == Init /\ [][NextSync]_vars

\* ------------------------------------------------------------------------
\* computeNormal as a function of its argument.  Here the coordinates are
\* in thousandths of a scene unit: profiles a thousandth of a unit across
\* next to profiles a unit across.
\* ------------------------------------------------------------------------
MaxProfile == 4
MilliPoints == {<<0, 0, 0>>, <<1, 0, 0>>, <<0, 1, 0>>,
                <<1000, 0, 0>>, <<0, 1000, 0>>, <<2000, 0, 0>>}
InitNormal ==
  /\ EngineInit
  /\ exShapes = <<>>
  /\ exSettings = createExtrusionPresets.simple
  /\ exResult = None
  /\ nrmPoints \in ListsUpTo(MilliPoints, MaxProfile)
  /\ nrmResult = None
  /\ offMesh = None
  /\ offInput = None
  /\ SyncInit

EstimateNormal ==
  /\ nrmResult = None
  /\ nrmResult' = Some(computeNormal(nrmPoints))
  /\ UNCHANGED <<engineVars, now, hist, exShapes, exSettings, exResult, nrmPoints,
               offMesh, offInput, syncVars>>

NextNormal == EstimateNormal

SpecNormal == InitNormal /\ [][NextNormal]_vars

\* ========================================================================
\* Claims
\* ========================================================================
\* positions of a shape handed to extrudeSketch
PositionsOf(shape) ==
  [k \in 1..Len(shape.points) |->
     Vec(shape.points[k].x, shape.points[k].y, shape.points[k].z)]
\* all points of the list lie on one line (or coincide)
AllCollinear(pts) ==
  \A i, j, k \in 1..Len(pts) :
    crossVectors(subVectors(pts[j], pts[i]), subVectors(pts[k], pts[i])) = ZeroVec
\* normal estimation succeeds: some triple (p0, pi, pi+1) spans a plane
PassesNormalEstimation(pts) ==
  \E i \in 2..(Len(pts) - 1) :
    crossVectors(subVectors(pts[i], pts[1]), subVectors(pts[i + 1], pts[1])) # ZeroVec
NothingToExtrude(shape) ==
  \/ ~shape.closed
  \/ Len(shape.points) < 3
  \/ AllCollinear(PositionsOf(shape))
ValidForExtrusion(shape) ==
  /\ shape.closed
  /\ Len(shape.points) >= 3
  /\ PassesNormalEstimation(PositionsOf(shape))

\* C1: extrudeSketch returns the fixed 1x1x1 box, never an empty or null
\* mesh, whenever the shape list is empty or every shape in it is open, has
\* fewer than 3 points or has all its points collinear.
C1_FallbackBox ==
  (exResult # None /\ \A i \in 1..Len(exShapes) : NothingToExtrude(exShapes[i]))
    => exResult[1] = [kind |-> "box", size |-> <<1, 1, 1>>]

\* a non-empty list of shapes none of which can be extruded, one of them
\* closed with three collinear points, has been extruded
C1_Witness ==
  /\ exResult # None
  /\ Len(exShapes) >= 1
  /\ \A i \in 1..Len(exShapes) : NothingToExtrude(exShapes[i])
  /\ \E i \in 1..Len(exShapes) :
       exShapes[i].closed /\ Len(exShapes[i].points) >= 3

\* C2: the merged output holds exactly one solid per shape that is closed,
\* has at least 3 points and passes normal estimation, in input order, each
\* built from that shape's points; every other shape contributes nothing and
\* does not stop the shapes after it from being processed.
C2_OneSolidPerValidShape ==
  exResult # None =>
    LET valid == SelectSeq(exShapes, ValidForExtrusion) IN
      IF valid = <<>>
        THEN exResult[1].kind = "box"
        ELSE /\ exResult[1].kind = "merged"
             /\ Len(exResult[1].parts) = Len(valid)
             /\ \A k \in 1..Len(valid) :
                  /\ exResult[1].parts[k].profile = PositionsOf(valid[k])
                  /\ exResult[1].parts[k].origin = PositionsOf(valid[k])[1]
                  /\ exResult[1].parts[k].options = exSettings

\* a shape that cannot be extruded comes before one that can, and the
\* list has been extruded
C2_Witness ==
  /\ exResult # None
  /\ Len(exShapes) = 2
  /\ ~ValidForExtrusion(exShapes[1])
  /\ ValidForExtrusion(exShapes[2])
  /\ exResult[1].kind = "merged"

\* C3: every committed shape satisfies the invariant of its type: a line
\* has exactly 2 points and is open, a rectangle has exactly 4 points and
\* is closed, a circle has exactly 2 points and is closed.
C3_TypeInvariants ==
  \A i \in 1..Len(shapes) :
    /\ shapes[i].type = "line" =>
         Len(shapes[i].points) = 2 /\ ~shapes[i].closed
    /\ shapes[i].type = "rectangle" =>
         Len(shapes[i].points) = 4 /\ shapes[i].closed
    /\ shapes[i].type = "circle" =>
         Len(shapes[i].points) = 2 /\ shapes[i].closed

\* C4: after setTool, setSketchMode or finishCurrentSketch returns, no
\* in-progress shape remains: currentShape is null.
C4_DiscardsInProgress ==
  [][ ( \/ \E tool \in Tools : SetTool(tool)
        \/ \E mode \in Modes : SetSketchMode(mode)
        \/ FinishCurrentSketch )
      => currentShape' = None ]_vars

\* C5: in every reachable state, isDrawing = true implies that a workplane
\* exists.
C5_DrawingNeedsWorkplane == isDrawing => workplane # None

\* C6: a polygon is in the committed list only with at least 3 points and
\* closed = true, a spline only with at least 2 points.
C6_PolygonSplineMinimum ==
  \A i \in 1..Len(shapes) :
    /\ shapes[i].type = "polygon" =>
         Len(shapes[i].points) >= 3 /\ shapes[i].closed
    /\ shapes[i].type = "spline" => Len(shapes[i].points) >= 2

\* C7: the 4 points of a committed rectangle lie in the workplane it was
\* drawn on and form a rectangle aligned with the workplane's local axes,
\* the two picks (points 1 and 3) being opposite corners; when the picks
\* differ in both local coordinates the 4 points are pairwise distinct.
C7_RectangleInWorkplane ==
  workplane # None =>
    \A i \in 1..Len(shapes) :
      (shapes[i].type = "rectangle" /\ Len(shapes[i].points) = 4) =>
        LET l == [k \in 1..4 |->
                    worldToLocal(workplane[1], shapes[i].points[k].position)]
        IN /\ \A k \in 1..4 : l[k][3] = 0
           /\ \/ /\ l[2] = <<l[3][1], l[1][2], 0>>
                 /\ l[4] = <<l[1][1], l[3][2], 0>>
              \/ /\ l[2] = <<l[1][1], l[3][2], 0>>
                 /\ l[4] = <<l[3][1], l[1][2], 0>>
           /\ (l[1][1] # l[3][1] /\ l[1][2] # l[3][2]) =>
                \A j, k \in 1..4 : j # k => l[j] # l[k]

\* C8: with the line, rectangle or circle tool and a workplane, a primary
\* pointer-down whose ray hits the workplane appends nothing and starts the
\* gesture; the pointer-up that follows, its ray on the workplane too,
\* appends exactly one shape of the tool's type and ends the gesture
\* (currentShape = null, isDrawing = false).
TwoPickTools == {"line", "rectangle", "circle"}
GestureStarted ==
  /\ workplane # None
  /\ currentTool \in TwoPickTools
  /\ isDrawing
  /\ currentShape # None
  /\ mouse # Miss
C8_TwoPickGesture ==
  [][ /\ ( /\ workplane # None
           /\ currentTool \in TwoPickTools
           /\ \E ev \in EventsAt(Picks) :
                ev.button = 0 /\ ev.pos # Miss /\ HandleMouseDown(ev) )
         => /\ shapes' = shapes
            /\ GestureStarted'
            /\ currentShape'[1].type = currentTool
            /\ Len(currentShape'[1].points) = 1
      /\ ( /\ GestureStarted
           /\ \E ev \in EventsAt(Picks) : ev.button = 0 /\ HandleMouseUp(ev) )
         => /\ Len(shapes') = Len(shapes) + 1
            /\ SubSeq(shapes', 1, Len(shapes)) = shapes
            /\ shapes'[Len(shapes')].type = currentTool
            /\ currentShape' = None
            /\ isDrawing' = FALSE ]_vars

\* a two-pick gesture has been completed: its shape is committed and the
\* engine is between gestures
C8_Witness ==
  /\ Len(shapes) = 1
  /\ shapes[1].type \in TwoPickTools
  /\ shapes[1].type = currentTool
  /\ hist.picks = 1
  /\ ~hist.down
  /\ currentShape = None
  /\ ~isDrawing

\* C9: with the polygon or the spline tool, after k successive pick
\* gestures on the workplane without a finish action the in-progress shape
\* holds at least k points.
C9_PicksAccumulate ==
  (currentTool \in {"polygon", "spline"} /\ hist.picks >= 1 /\ ~hist.down)
    => currentShape # None /\ Len(currentShape[1].points) >= hist.picks

\* C10: in free mode a primary-button pointer-down starts a shape without
\* any workplane: whenever the mode is free and no shape is in progress,
\* handleMouseDown on a primary-button event leaves currentShape non-null.
C10_FreeModeStartsShape ==
  (sketchMode = "free" /\ currentShape = None) =>
    \A ev \in EventsAt(Picks) :
      (ev.button = 0 /\ ev.pos # Miss) =>
        handleMouseDown(Self, ev).e.currentShape # None

\* What the code does instead, an invariant of Spec: in free mode there is
\* never a workplane, and handleMouseDown leaves currentShape as it was for
\* every event, so no pointer-down in free mode starts a shape.
FreeModeNeverStartsShape ==
  sketchMode = "free" =>
    /\ workplane = None
    /\ \A ev \in EventsAt(Picks) :
         handleMouseDown(Self, ev).e.currentShape = currentShape

\* C11: in surface mode with no workplane, a click whose ray hits no solid
\* is a no-op: handleClick returns false, raises nothing and leaves the
\* workplane (null), the committed shapes, the in-progress shape and
\* isDrawing as they were; a later click that hits a solid creates the
\* workplane.
HitsSolid(hit) == hit # None /\ hit[1].kind = "solid"
C11_MissedClickIsNoOp ==
  (sketchMode = "surface" /\ workplane = None) =>
    \A ev \in EventsAt(AcquirePicks), hit \in Hits(Self, FacingZ),
       cam \in Cams(FacingZ) :
      ~HitsSolid(hit) =>
        LET r == handleClick(Self, ev, hit, cam) IN
          /\ r.ret = "false"
          /\ r.e.workplane = None
          /\ r.e.shapes = shapes
          /\ r.e.currentShape = currentShape
          /\ r.e.isDrawing = isDrawing
          /\ \A ev2 \in EventsAt(AcquirePicks), hit2 \in Hits(r.e, FacingZ) :
               HitsSolid(hit2) =>
                 LET r2 == handleClick(r.e, ev2, hit2, cam) IN
                   r2.ret = "true" /\ r2.e.workplane # None

\* What the code does when the ray meets nothing at all, an invariant of
\* SpecAcquire: the click is a no-op and a later click on a solid creates
\* the workplane.
EmptyRayIsNoOp ==
  (sketchMode = "surface" /\ workplane = None) =>
    \A ev \in EventsAt(AcquirePicks), cam \in Cams(FacingZ) :
      LET r == handleClick(Self, ev, None, cam) IN
        /\ r.ret = "false"
        /\ r.e.workplane = None
        /\ r.e.shapes = shapes
        /\ r.e.currentShape = currentShape
        /\ r.e.isDrawing = isDrawing
        /\ \A ev2 \in EventsAt(AcquirePicks), hit2 \in Hits(r.e, FacingZ) :
             HitsSolid(hit2) =>
               LET r2 == handleClick(r.e, ev2, hit2, cam) IN
                 r2.ret = "true" /\ r2.e.workplane # None

\* C12: the workplane is acquired once, lazily: it is created only by
\* handleClick when none exists and the mode is surface or plane; while a
\* workplane exists no pointer event replaces or moves it (nor does any
\* other call), and it becomes null only through setSketchMode or clear.
\* Stated over every call that can be made in a reachable state.
Placement(w) ==
  IF w = None THEN None
  ELSE Some([position |-> w[1].position, normal |-> w[1].normal])
KeepsPlacement(e) == Placement(e.workplane) = Placement(workplane)
C12_AcquiredOnce ==
  /\ \A ev \in EventsAt(AcquirePicks) :
       /\ KeepsPlacement(handleMouseDown(Self, ev).e)
       /\ KeepsPlacement(handleMouseMove(Self, ev).e)
       /\ KeepsPlacement(handleMouseUp(Self, ev).e)
       /\ KeepsPlacement(handleDoubleClick(Self, ev).e)
       /\ \A hit \in Hits(Self, Normals), cam \in Cams(Normals) :
            LET after == handleClick(Self, ev, hit, cam).e IN
              \/ KeepsPlacement(after)
              \/ /\ workplane = None
                 /\ after.workplane # None
                 /\ sketchMode \in {"surface", "plane"}
  /\ \A tool \in Tools : KeepsPlacement(setTool(Self, tool))
  /\ KeepsPlacement(finishCurrentSketch(Self))
  /\ \A snap \in BOOLEAN : KeepsPlacement(setSnapToGrid(Self, snap))
  /\ \A size \in GridSizes : KeepsPlacement(setGridSize(Self, size))
  /\ \A visible \in BOOLEAN : KeepsPlacement(setWorkplaneVisible(Self, visible))
  /\ \A mode \in Modes :
       KeepsPlacement(setSketchMode(Self, mode)) \/ setSketchMode(Self, mode).workplane = None
  /\ KeepsPlacement(clear(Self)) \/ clear(Self).workplane = None

\* a workplane acquired in plane mode has outlived a whole circle gesture
\* and a later click
C12_Witness ==
  /\ sketchMode = "plane"
  /\ workplane # None
  /\ shapes # <<>>
  /\ currentShape = None
  /\ mouse = <<2, 0>>

\* C13: surface-mode acquisition only ever anchors on an existing solid:
\* whenever createWorkplane would cast its ray (surface mode, no workplane)
\* the objects it tests include nothing the engine created itself.
C13_OnlySolidsRayTested ==
  (sketchMode = "surface" /\ workplane = None) => rayTested(Self) \subseteq {"solid"}

\* C14: with snapping on and grid size g > 0, the point the engine uses for
\* a raw pick has workplane-local x and y that are integer multiples of g,
\* each the nearest multiple of the raw coordinate, lies on the workplane,
\* and is no further than g/sqrt(2) from the raw pick in the local plane;
\* with snapping off it is the raw pick itself.
RawCoordinate == 3
RawPicks == {<<x, y>> : x \in -RawCoordinate..RawCoordinate,
                        y \in -RawCoordinate..RawCoordinate}
Abs(n) == IF n < 0 THEN -n ELSE n
C14_SnapToNearestMultiple ==
  workplane # None =>
    \A raw \in RawPicks :
      LET point == getWorkplaneIntersection([Self EXCEPT !.mouse = raw])
          l == worldToLocal(workplane[1], point[1])
          dx == l[1] - raw[1]
          dy == l[2] - raw[2]
      IN /\ point # None
         /\ l[3] = 0
         /\ IF snapToGrid
              THEN /\ gridSize > 0
                   /\ l[1] % gridSize = 0
                   /\ l[2] % gridSize = 0
                   /\ 2 * Abs(dx) <= gridSize
                   /\ 2 * Abs(dy) <= gridSize
                   /\ 2 * (dx * dx + dy * dy) <= gridSize * gridSize
              ELSE dx = 0 /\ dy = 0

\* a line was drawn with snapping on and the default grid on a workplane
\* facing +X: its start is the pick (1, 3) moved to the grid point (2, 4)
C14_Witness ==
  /\ workplane # None
  /\ workplane[1].normal = "x"
  /\ snapToGrid
  /\ gridSize = DefaultGridSize
  /\ Len(shapes) = 1
  /\ shapes[1].type = "line"
  /\ mouse = <<1, 3>>
  /\ worldToLocal(workplane[1], shapes[1].points[1].position) = <<2, 4, 0>>

\* C15: computeNormal scans the triples (p0, pi, pi+1) in increasing i and
\* returns the normalized cross product of (pi - p0) and (pi+1 - p0) for
\* the first i whose un-normalized cross product has squared length greater
\* than 1e-6; it returns null exactly when there are fewer than 3 points or
\* no triple's cross product has squared length greater than 1e-6.
\* With coordinates in thousandths, the squared length of a cross product
\* is in units of 1e-12, in which 1e-6 is a million.
CrossEpsilon == 1000000
CrossAt(points, i) ==
  crossVectors(subVectors(points[i], points[1]), subVectors(points[i + 1], points[1]))
Qualifies(points, i) == dot(CrossAt(points, i), CrossAt(points, i)) > CrossEpsilon
C15_FirstQualifyingTriple ==
  nrmResult # None =>
    LET qualifying == {i \in 2..(Len(nrmPoints) - 1) : Qualifies(nrmPoints, i)} IN
      IF Len(nrmPoints) < 3 \/ qualifying = {}
        THEN nrmResult[1] = None
        ELSE LET first == CHOOSE i \in qualifying : \A j \in qualifying : i <= j
             IN nrmResult[1] = Some(normalize(CrossAt(nrmPoints, first)))

\* What the code does, an invariant of SpecNormal: the test is made on the
\* cross product after it was normalized, so the first triple whose cross
\* product is not the zero vector is taken, however short it is.
FirstNonZeroTriple ==
  nrmResult # None =>
    LET nonzero == {i \in 2..(Len(nrmPoints) - 1) : CrossAt(nrmPoints, i) # ZeroVec} IN
      IF Len(nrmPoints) < 3 \/ nonzero = {}
        THEN nrmResult[1] = None
        ELSE LET first == CHOOSE i \in nonzero : \A j \in nonzero : i <= j
             IN nrmResult[1] = Some(normalize(CrossAt(nrmPoints, first)))

\* C16: projection round trip: for every closed shape of at least 3
\* coplanar points for which normal estimation succeeds, each point
\* projected to the local 2D frame and mapped back with the world transform
\* is the original 3D point.
Coplanar(pts) ==
  \A i, j, k \in 1..Len(pts) :
    dot(subVectors(pts[k], pts[1]),
        crossVectors(subVectors(pts[i], pts[1]), subVectors(pts[j], pts[1]))) = 0
RoundTrip(part) ==
  \A k \in 1..Len(part.profile) :
    LET w == applyToWorld(part, part.shape2D[k])
        d == subVectors(part.profile[k], w.origin)
    IN <<d[1] * w.den, d[2] * w.den, d[3] * w.den>> = w.num
C16_ProjectionRoundTrip ==
  (exResult # None /\ exResult[1].kind = "merged") =>
    \A k \in 1..Len(exResult[1].parts) :
      Coplanar(exResult[1].parts[k].profile) => RoundTrip(exResult[1].parts[k])

\* What the code does, an invariant of SpecExtrude: the round trip holds
\* for every solid whose profile does not begin with a repeated point, and
\* a profile with p1 = p0 is flattened to a single point.
RoundTripUnlessRepeatedStart ==
  (exResult # None /\ exResult[1].kind = "merged") =>
    \A k \in 1..Len(exResult[1].parts) :
      LET part == exResult[1].parts[k] IN
        IF part.profile[2] # part.profile[1]
          THEN RoundTrip(part)
          ELSE \A j \in 1..Len(part.shape2D) :
                 part.shape2D[j].x.num = 0 /\ part.shape2D[j].y.num = 0

Idle(e) ==
  /\ e.shapes = <<>>
  /\ e.currentShape = None
  /\ e.isDrawing = FALSE
  /\ e.workplane = None
  /\ e.gridHelper = None
  /\ e.sketchLines = 0
  /\ e.sketchMeshes = 0
  /\ e.previewLine = FALSE
  /\ e.previewMesh = None
  /\ \A k \in SceneKinds : e.scene[k] = 0
SameConfiguration(e, f) ==
  /\ e.currentTool = f.currentTool
  /\ e.sketchMode = f.sketchMode
  /\ e.snapToGrid = f.snapToGrid
  /\ e.gridSize = f.gridSize
  /\ e.workplaneVisible = f.workplaneVisible
C18_ClearReturnsToIdle ==
  /\ Idle(clear(Self))
  /\ SameConfiguration(clear(Self), Self)

\* clear has everything to undo: a committed line and a committed circle
\* with their visuals, a circle in progress with its preview ring, a
\* workplane with its grid, and a configuration that is not the
\* constructor's
C18_Witness ==
  /\ Len(shapes) = 2
  /\ sketchLines = 1 /\ scene["sketchLine"] = 1
  /\ sketchMeshes = 1 /\ scene["sketchMesh"] = 1
  /\ currentShape # None
  /\ isDrawing
  /\ previewMesh # None /\ scene["previewMesh"] = 1
  /\ workplane # None /\ scene["workplane"] = 1
  /\ gridHelper # None /\ scene["grid"] = 1
  /\ currentTool = "circle"
  /\ sketchMode = "plane"
  /\ ~Idle(Self)

\* ------------------------------------------------------------------------
\* C19: finished shapes accumulate append-only.  In every step that is not
\* a call of clear the committed list before the step is a prefix of the
\* list after it (so no committed shape is modified, reordered or removed,
\* and the list grows only at its end), and getShapes returns the
\* committed list as it is, in commit order, whatever shape is in progress.
\* ------------------------------------------------------------------------
IsPrefix(s, t) ==
  /\ Len(s) <= Len(t)
  /\ \A i \in 1..Len(s) : s[i] = t[i]
AppendOnlyStep ==
  /\ ~Clear => IsPrefix(shapes, shapes')
  /\ getShapes(Self) = shapes
C19_AppendOnly == [][AppendOnlyStep]_vars

\* two different shapes were committed one after the other and a third is
\* in progress
C19_Witness ==
  /\ Len(shapes) = 2
  /\ shapes[1] # shapes[2]
  /\ currentShape # None
  /\ Len(currentShape[1].points) >= 2

\* ------------------------------------------------------------------------
\* C20: every completed shape has exactly one persistent visual.  In every
\* reachable state the number of committed shapes is the number of sketch
\* lines plus the number of sketch meshes the engine holds, and every one
\* of these lines and meshes, and no other, is in the scene.
\* ------------------------------------------------------------------------
C20_OneVisualPerShape ==
  /\ Len(shapes) = sketchLines + sketchMeshes
  /\ scene["sketchLine"] = sketchLines
  /\ scene["sketchMesh"] = sketchMeshes

\* a line or polygon and a circle are committed, each with its visual,
\* while a further shape is in progress with its transient preview
C20_Witness ==
  /\ Len(shapes) = 2
  /\ sketchLines = 1
  /\ sketchMeshes = 1
  /\ \E i \in 1..2 : shapes[i].type = "circle"
  /\ currentShape # None
  /\ previewLine \/ previewMesh # None

\* ------------------------------------------------------------------------
\* C21: transient previews are replaced, never accumulated.  In every
\* reachable state at most one preview object (preview line or preview
\* mesh) is in the scene, and the preview objects in the scene are exactly
\* the ones the engine references: one preview line iff previewLine is
\* set, one preview mesh iff previewMesh is set.
\* ------------------------------------------------------------------------
C21_OnePreviewAtMost ==
  /\ scene["previewLine"] + scene["previewMesh"] <= 1
  /\ scene["previewLine"] = (IF previewLine THEN 1 ELSE 0)
  /\ scene["previewMesh"] = (IF previewMesh # None THEN 1 ELSE 0)

\* a polygon in progress shows its preview line after a committed shape
\* has had and lost its own preview
C21_Witness ==
  /\ Len(shapes) >= 1
  /\ currentShape # None
  /\ currentShape[1].type = "polygon"
  /\ Len(currentShape[1].points) >= 2
  /\ previewLine
  /\ scene["previewLine"] = 1

\* ------------------------------------------------------------------------
\* C22: a change of snap-to-grid, grid size or workplane visibility made
\* while sketching, delivered through the settings effect of Viewport3D
\* with the tool and the mode as they are, leaves the active workplane
\* where it is and leaves the committed list and the in-progress shape
\* unchanged.
\* ------------------------------------------------------------------------
KeepsSketch(e) ==
  /\ (e.workplane = None) = (workplane = None)
  /\ KeepsPlacement(e)
  /\ e.shapes = shapes
  /\ e.currentShape = currentShape
C22_SettingsKeepSketch ==
  \A settings \in SketchSettings :
    KeepsSketch(settingsEffect(Self, currentTool, sketchMode, settings))

\* the three setters of the settings, called by themselves, do leave the
\* workplane, the committed list and the in-progress shape unchanged
SettersKeepSketch ==
  /\ \A snap \in BOOLEAN : KeepsSketch(setSnapToGrid(Self, snap))
  /\ \A size \in GridSizes : KeepsSketch(setGridSize(Self, size))
  /\ \A visible \in BOOLEAN : KeepsSketch(setWorkplaneVisible(Self, visible))

\* ------------------------------------------------------------------------
\* C23: Viewport3D passes pointer events to the engine only while its prop
\* sketchMode is true.  In every state, a pointer-down, move, up, click or
\* double-click that arrives with sketchMode = false leaves every field of
\* the engine and the scene as they are.
\* ------------------------------------------------------------------------
C23_InactiveViewportIsInert ==
  \A ev \in EventsAt(AcquirePicks) :
    /\ viewportHandleMouseDown(Self, FALSE, ev) = Self
    /\ viewportHandleMouseMove(Self, FALSE, ev) = Self
    /\ viewportHandleMouseUp(Self, FALSE, ev) = Self
    /\ viewportHandleDoubleClick(Self, FALSE, ev) = Self
    /\ \A moving \in BOOLEAN, hit \in Hits(Self, FacingZ), cam \in Cams(FacingZ) :
         viewportHandleCanvasClick(Self, FALSE, moving, ev, hit, cam) = Self

\* a line is being drawn and a release that would complete it with sketch
\* mode on is ignored with sketch mode off
C23_Witness ==
  /\ isDrawing
  /\ currentShape # None
  /\ workplane # None
  /\ \E ev \in EventsAt(AcquirePicks) :
       /\ viewportHandleMouseUp(Self, TRUE, ev) # Self
       /\ viewportHandleMouseUp(Self, FALSE, ev) = Self

\* ------------------------------------------------------------------------
\* C24: extrudeSketch is pure and stateless.  Every call leaves the shape
\* list (the shapes and their points) and the settings as the caller
\* passed them, and the mesh it returns is the function of these
\* arguments alone, whatever calls were made before: two calls with equal
\* arguments return equal meshes.
\* ------------------------------------------------------------------------
ExtrudeCall == exResult = None /\ exResult' # None
OffsetDistances == {-2, -1, 0, 1, 2}
LeavesInput(call, mesh) ==
  /\ call.input = mesh
  /\ call.output.id # mesh.id
SatisfiesConstraints(settings) ==
  /\ settings.depth > 0
  /\ settings.bevelThickness >= 0
  /\ settings.bevelSize >= 0
  /\ settings.bevelSegments >= 0
C26_PresetTable ==
  LET presets == createExtrusionPresets IN
  /\ DOMAIN presets = {"simple", "beveled", "deep"}
  /\ presets.simple.depth = 100 /\ ~presets.simple.bevelEnabled
  /\ presets.beveled = [depth |-> 100, bevelEnabled |-> TRUE, bevelThickness |-> 10,
                        bevelSize |-> 10, bevelSegments |-> 3]
  /\ presets.deep = [depth |-> 200, bevelEnabled |-> TRUE, bevelThickness |-> 5,
                     bevelSize |-> 5, bevelSegments |-> 2]
  /\ \A n \in DOMAIN presets : SatisfiesConstraints(presets[n])
  /\ createExtrusionPresetsAlt = presets
  /\ SatisfiesConstraints(exSettings)

\* a valid shape has been extruded with the preset beveled
C26_Witness ==
  /\ exSettings = createExtrusionPresets.beveled
  /\ exResult # None
  /\ exResult[1].kind = "merged"
  /\ exResult[1].parts[1].options.bevelSegments = 3

\* ------------------------------------------------------------------------
\* C27: for every shape that extrudeSketch extrudes (closed, >= 3 points,
\* a normal was found) the local basis is a proper frame: u and v are
\* non-zero (hence unit) vectors and u, v and the normal are mutually
\* orthogonal.
\* ------------------------------------------------------------------------
ProperFrame(part) ==
  /\ part.u.dir # ZeroVec
  /\ part.v.dir # ZeroVec
  /\ dot(part.u.dir, part.v.dir) = 0
  /\ dot(part.u.dir, part.normal.dir) = 0
  /\ dot(part.v.dir, part.normal.dir) = 0
C27_ProperFrame ==
  (exResult # None /\ exResult[1].kind = "merged") =>
    \A k \in 1..Len(exResult[1].parts) : ProperFrame(exResult[1].parts[k])

\* What the code does, an invariant of SpecExtrude: the frame of a
\* coplanar profile is proper whenever its first two points differ.
ProperFrameUnlessRepeatedStart ==
  (exResult # None /\ exResult[1].kind = "merged") =>
    \A k \in 1..Len(exResult[1].parts) :
      LET part == exResult[1].parts[k] IN
        part.profile[1] # part.profile[2] => ProperFrame(part)

\* ------------------------------------------------------------------------
\* C28: an explicit finish commits the in-progress shape by what it is.
\* Whenever the in-progress shape is a polygon with >= 3 points or a spline
\* with >= 2 points, finishCurrentSketch, called directly or through
\* setTool with any tool, appends it to the committed list (the polygon
\* with closed = true) and leaves currentShape null, whatever currentTool
\* is.
\* ------------------------------------------------------------------------
Finishable(shape) ==
  \/ shape.type = "polygon" /\ Len(shape.points) >= 3
  \/ shape.type = "spline" /\ Len(shape.points) >= 2
Finished(shape) ==
  IF shape.type = "polygon" THEN [shape EXCEPT !.closed = TRUE] ELSE shape
CommitsInProgress(e) ==
  /\ e.shapes = Append(shapes, Finished(currentShape[1]))
  /\ e.currentShape = None
C28_FinishByShape ==
  (currentShape # None /\ Finishable(currentShape[1])) =>
    /\ CommitsInProgress(finishCurrentSketch(Self))
    /\ \A tool \in Tools : CommitsInProgress(setTool(Self, tool))

\* What the code does, an invariant of Spec: the finish goes by the tool
\* in force.  Under the polygon tool a shape of >= 3 points is committed
\* closed, under the spline tool a shape of >= 2 points is committed as it
\* is, whatever the type of the shape; under every other tool the shape
\* stays in progress and the committed list stays as it is.
FinishedUnder(e, tool) ==
  LET shape == currentShape[1] IN
  IF tool = "polygon" /\ Len(shape.points) >= 3
    THEN e.shapes = Append(shapes, [shape EXCEPT !.closed = TRUE])
           /\ e.currentShape = None
    ELSE IF tool = "spline" /\ Len(shape.points) >= 2
      THEN e.shapes = Append(shapes, shape) /\ e.currentShape = None
      ELSE e.shapes = shapes /\ e.currentShape = currentShape
FinishByTool ==
  currentShape # None =>
    /\ FinishedUnder(finishCurrentSketch(Self), currentTool)
    /\ \A tool \in Tools : FinishedUnder(setTool(Self, tool), tool)

\* ------------------------------------------------------------------------
\* C29: the two extrudeSketch variants agree on what is extruded.  For
\* every shape list they return the fallback box for the same inputs, and
\* otherwise both build their output from the same input shapes: every
\* closed shape with >= 3 non-collinear points and no other.
\* ------------------------------------------------------------------------
ProfilesOf(result) ==
  IF result.kind = "box" THEN {}
  ELSE {result.parts[k].profile : k \in 1..Len(result.parts)}
ValidProfiles(shapeList) ==
  {PositionsOf(shapeList[k]) :
     k \in {j \in 1..Len(shapeList) : ValidForExtrusion(shapeList[j])}}
C29_VariantsAgree ==
  exResult # None =>
    LET first == exResult[1]
        second == extrudeSketchAlt(exShapes, exSettings)
    IN /\ (first.kind = "box") = (second.kind = "box")
       /\ ProfilesOf(first) = ProfilesOf(second)
       /\ ProfilesOf(second) = ValidProfiles(exShapes)

\* What the code does, an invariant of SpecExtrude: the first variant
\* extrudes exactly the valid shapes, the second variant extrudes only
\* the first shape of the list that has two points or more, whether it is
\* closed or open, collinear or not.
VariantsByTheirOwnTests ==
  exResult # None =>
    LET first == exResult[1]
        second == extrudeSketchAlt(exShapes, exSettings)
        twoPoints == {j \in 1..Len(exShapes) : Len(exShapes[j].points) >= 2}
    IN /\ ProfilesOf(first) = ValidProfiles(exShapes)
       /\ (second.kind = "box") = (twoPoints = {})
       /\ twoPoints # {} =>
            LET j == CHOOSE j \in twoPoints : \A l \in twoPoints : j <= l
            IN ProfilesOf(second) = {PositionsOf(exShapes[j])}

\* ------------------------------------------------------------------------
\* C30: a primary-button release always ends the Drawing state.  Whenever
\* isDrawing is true, handleMouseUp with button 0 leaves isDrawing false,
\* also when the release ray misses the workplane or the workplane has
\* been removed since the press.
\* ------------------------------------------------------------------------
PrimaryEvents == {ev \in EventsAt(Picks) : ev.button = 0}
C30_ReleaseEndsDrawing ==
  isDrawing =>
    \A ev \in PrimaryEvents : ~handleMouseUp(Self, ev).e.isDrawing

\* What the code does, an invariant of Spec: the release ends the Drawing
\* state exactly when a shape is in progress and the ray of the last
\* pointer position meets the workplane; otherwise finishDrawing returns
\* early and the engine is left as it was, still drawing.
ReleaseEndsDrawingOnHit ==
  isDrawing =>
    \A ev \in PrimaryEvents :
      IF currentShape # None /\ getWorkplaneIntersection(Self) # None
        THEN ~handleMouseUp(Self, ev).e.isDrawing
        ELSE handleMouseUp(Self, ev).e = Self

\* ------------------------------------------------------------------------
\* C31: when no gesture is in progress (currentShape is null and isDrawing
\* is false) no transient preview remains: the engine references no
\* preview line and no preview mesh and none is in the scene.
\* ------------------------------------------------------------------------
NoPreview(e) ==
  /\ ~e.previewLine
  /\ e.previewMesh = None
  /\ e.scene["previewLine"] = 0
  /\ e.scene["previewMesh"] = 0
C31_NoPreviewWhenIdle ==
  (currentShape = None /\ ~isDrawing) => NoPreview(Self)

\* What the code does, an invariant of Spec: of the finish methods only
\* finishPolygon calls clearPreview, so a preview that is left when no
\* gesture is in progress belongs to the line, rectangle or circle that
\* was committed last.
PreviewLeftByTwoPickShape ==
  (currentShape = None /\ ~isDrawing /\ ~NoPreview(Self)) =>
    /\ shapes # <<>>
    /\ shapes[Len(shapes)].type \in {"line", "rectangle", "circle"}

\* ------------------------------------------------------------------------
\* C32: handleClick completes without raising in every reachable state,
\* returns true exactly when it created a workplane or one existed already,
\* and a click while a workplane exists leaves the committed shapes as
\* they were.
\* ------------------------------------------------------------------------
ClickCalls(e) ==
  {c \in [ev : EventsAt(Picks), hit : Hits(e, FacingZ), cam : Cams(FacingZ)] : TRUE}
C32_ClickNeverRaises ==
  \A c \in ClickCalls(Self) :
    LET r == handleClick(Self, c.ev, c.hit, c.cam) IN
    /\ r.ret # "throw"
    /\ (r.ret = "true") <=> (workplane # None \/ r.e.workplane # None)
    /\ workplane # None => r.e.shapes = shapes

\* What the code does, an invariant of Spec: the click raises exactly when
\* a workplane exists (the call of the missing method addSketchPoint);
\* without one it returns true exactly when it created a workplane; the
\* committed shapes are untouched in both cases.
ClickRaisesOnWorkplane ==
  \A c \in ClickCalls(Self) :
    LET r == handleClick(Self, c.ev, c.hit, c.cam) IN
    /\ (r.ret = "throw") <=> (workplane # None)
    /\ workplane = None => ((r.ret = "true") <=> (r.e.workplane # None))
    /\ r.e.shapes = shapes

\* ------------------------------------------------------------------------
\* C33: the ids of the committed shapes are pairwise distinct and the ids
\* of the points within each committed shape are pairwise distinct, also
\* when Date.now() does not advance between two id allocations.
\* ------------------------------------------------------------------------
DistinctIds(seq) ==
  \A i, j \in 1..Len(seq) : i # j => seq[i].id # seq[j].id
C33_IdsUnique ==
  /\ DistinctIds(shapes)
  /\ \A i \in 1..Len(shapes) : DistinctIds(shapes[i].points)

\* What the code does, an invariant of SpecClock: an id is the clock value
\* at its allocation and nothing else, so two ids of one kind differ only
\* if the clock advanced between them. A handler call reads one clock
\* value (the millisecond clock does not advance within it), so the three
\* corners that finishRectangle allocates in one call share their id.
IdsAreClockValues ==
  \A i \in 1..Len(shapes) :
    /\ shapes[i].id[2] \in 0..now
    /\ \A k \in 1..Len(shapes[i].points) : shapes[i].points[k].id \in 0..now
    /\ (shapes[i].type = "rectangle" /\ Len(shapes[i].points) = 4) =>
         /\ shapes[i].points[2].id = shapes[i].points[3].id
         /\ shapes[i].points[3].id = shapes[i].points[4].id

\* ------------------------------------------------------------------------
\* C34: the renderer shows an object's current geometry: once the
\* object-sync effect has run, the geometry registered in ThreeRenderer
\* under the id of each object is the geometry of that object in the App
\* state (also after handleOffsetFace or handleOffsetBody replaced it),
\* and it is not a disposed one.
\* ------------------------------------------------------------------------
ShowsCurrentGeometry(v) ==
  \A k \in 1..Len(v.objects) :
    LET obj == v.objects[k] IN
    /\ obj.id \in DOMAIN v.rendererObjects
    /\ v.rendererObjects[obj.id].geometry = obj.geometry
    /\ ~v.buffers[v.rendererObjects[obj.id].geometry].disposed
C34_RendererShowsCurrentGeometry == ShowsCurrentGeometry(objectSync(View))

\* What the code does, an invariant of SpecSync: the effect adds an object
\* to the renderer only the first time it sees its id and updateObject
\* never touches the geometry, so a registered object keeps the geometry
\* it was added with; the object's geometry in the App state is a later
\* buffer exactly when an offset replaced it, and then the registered
\* one is disposed.
RendererKeepsFirstGeometry ==
  LET v == objectSync(View) IN
  /\ \A id \in DOMAIN rendererObjects \cap DOMAIN v.rendererObjects :
       v.rendererObjects[id].geometry = rendererObjects[id].geometry
  /\ \A k \in 1..Len(v.objects) :
       LET obj == v.objects[k] IN
       /\ v.rendererObjects[obj.id].geometry <= obj.geometry
       /\ v.rendererObjects[obj.id].geometry < obj.geometry =>
            v.buffers[v.rendererObjects[obj.id].geometry].disposed

\* ------------------------------------------------------------------------
\* C35: after every run of the object-sync effect the set of ids
\* registered in ThreeRenderer equals the set of ids in the objects prop,
\* whatever additions, deletions, duplications and updates came before.
\* ------------------------------------------------------------------------
C35_RegisteredIdsMatch ==
  DOMAIN objectSync(View).rendererObjects = IdsOf(objects)

\* the effect has run after an object was deleted and another duplicated:
\* two objects are registered, a third id is no longer
C35_Witness ==
  /\ Len(objects) = 2
  /\ generated = 3
  /\ DOMAIN rendererObjects = IdsOf(objects)
  /\ DOMAIN prevObjects = IdsOf(objects)
  /\ \E g \in 1..Len(buffers) : buffers[g].disposed /\ buffers[g].made = "primitive"
  /\ \E g \in 1..Len(buffers) : buffers[g].made = "clone"

\* ------------------------------------------------------------------------
\* C36: the workplane grid follows the visibility setting: whenever a
\* workplane exists and workplaneVisible is true, the engine's grid helper
\* is present in the scene and visible, for any order of createWorkplane,
\* setGridSize and setWorkplaneVisible calls.
\* ------------------------------------------------------------------------
C36_GridFollowsVisibility ==
  (workplane # None /\ workplaneVisible) =>
    /\ gridHelper # None
    /\ gridHelper[1].visible
    /\ gridHelper[1].inScene
    /\ scene["grid"] = 1

\* What the code does, an invariant of SpecGrid: with a workplane there is
\* always a grid helper and setWorkplaneVisible(true) makes it visible,
\* but only createWorkplaneAt and setGridSize put a helper into the scene,
\* and only while workplaneVisible is true; setWorkplaneVisible changes
\* the helper's flag and the material's opacity and nothing in the scene.
GridHelperFlagOnly ==
  /\ workplane # None =>
       /\ gridHelper # None
       /\ workplaneVisible => gridHelper[1].visible
  /\ gridHelper # None => workplane # None
  /\ scene["grid"] = (IF gridHelper # None /\ gridHelper[1].inScene THEN 1 ELSE 0)
  /\ \A visible \in BOOLEAN :
       LET e == setWorkplaneVisible(Self, visible) IN
       e.scene = scene /\ (gridHelper # None => e.gridHelper[1].inScene = gridHelper[1].inScene)

====
